---- MODULE Spec2Model ----
(***************************************************************************)
(* Model of the Excalidraw note assembly of obsidian-mcp:                  *)
(*   src/mcp_obsidian/excalidraw.py  (ExcalidrawElement, the element       *)
(*       processor, the text extractor, ExcalidrawNoteBuilder and          *)
(*       build_excalidraw_note)                                            *)
(*   src/mcp_obsidian/tools.py       (SaveExcalidrawToolHandler)           *)
(*                                                                         *)
(* Python values are tagged records: t is the Python type, v the payload.  *)
(* A str is the sequence of its characters, a list the sequence of its     *)
(* items, a dict the sequence of its key/value entries in insertion order. *)
(* A number n is stored as n * Scale so that the products with 0.6 and     *)
(* 1.25 and the halving of the centring arithmetic stay exact.             *)
(***************************************************************************)
EXTENDS Integers, Sequences, FiniteSets, TLC

\* ------------------------------------------------------------------------
\* Python values
\* ------------------------------------------------------------------------
Scale == 40

None == [t |-> "none"]
Bool(b) == [t |-> "bool", v |-> b]
Num(n) == [t |-> "num", v |-> n * Scale]
Str(s) == [t |-> "str", v |-> s]
List(l) == [t |-> "list", v |-> l]
Dict(d) == [t |-> "dict", v |-> d]

\* An exception propagating out of an expression.
Raise(e) == [t |-> "raise", v |-> e]
IsRaise(x) == x.t = "raise"

\* bool(x)
Truthy(x) ==
  CASE x.t = "none" -> FALSE
    [] x.t = "bool" -> x.v
    [] x.t = "num"  -> x.v # 0
    [] x.t = "str"  -> Len(x.v) > 0
    [] x.t = "list" -> Len(x.v) > 0
    [] x.t = "dict" -> Len(x.v) > 0

\* ------------------------------------------------------------------------
\* dict operations on entry sequences <<[k |-> key, v |-> value], ...>>
\* ------------------------------------------------------------------------
Entry(k, x) == [k |-> k, v |-> x]

\* set(d.keys())
Keys(d) == {d[i].k : i \in DOMAIN d}

\* k in d
Has(d, k) == \E i \in DOMAIN d : d[i].k = k

\* d.get(k, dflt)
Get(d, k, dflt) ==
  IF Has(d, k) THEN d[CHOOSE i \in DOMAIN d : d[i].k = k].v ELSE dflt

\* d[k] = x : an existing key keeps its position, a new key goes last
Put(d, k, x) ==
  IF Has(d, k)
    THEN [i \in DOMAIN d |-> IF d[i].k = k THEN Entry(k, x) ELSE d[i]]
    ELSE Append(d, Entry(k, x))

\* d.update(e)
RECURSIVE Update(_, _)
Update(d, e) ==
  IF e = << >> THEN d ELSE Update(Put(d, Head(e).k, Head(e).v), Tail(e))

\* {k: v for k, v in d.items() if k in ks} and its complement
RECURSIVE Restrict(_, _, _)
Restrict(d, ks, keep) ==
  IF d = << >> THEN << >>
  ELSE IF (Head(d).k \in ks) = keep
    THEN <<Head(d)>> \o Restrict(Tail(d), ks, keep)
    ELSE Restrict(Tail(d), ks, keep)

\* ------------------------------------------------------------------------
\* str operations on character sequences
\* ------------------------------------------------------------------------
\* s.replace(old, new): left to right, non-overlapping
RECURSIVE Replace(_, _, _)
Replace(s, old, new) ==
  IF Len(s) < Len(old) THEN s
  ELSE IF SubSeq(s, 1, Len(old)) = old
    THEN new \o Replace(SubSeq(s, Len(old) + 1, Len(s)), old, new)
    ELSE <<Head(s)>> \o Replace(Tail(s), old, new)

Whitespace == {" ", "\n", "\t"}

RECURSIVE LStrip(_)
LStrip(s) ==
  IF s # << >> /\ Head(s) \in Whitespace THEN LStrip(Tail(s)) ELSE s

RECURSIVE RStrip(_)
RStrip(s) ==
  IF s # << >> /\ s[Len(s)] \in Whitespace
    THEN RStrip(SubSeq(s, 1, Len(s) - 1)) ELSE s

\* s.strip()
Strip(s) == RStrip(LStrip(s))

\* str(n) for an integer n
DigitChar(n) ==
  CASE n = 0 -> "0" [] n = 1 -> "1" [] n = 2 -> "2" [] n = 3 -> "3"
    [] n = 4 -> "4" [] n = 5 -> "5" [] n = 6 -> "6" [] n = 7 -> "7"
    [] n = 8 -> "8" [] n = 9 -> "9"

RECURSIVE Digits(_)
Digits(n) ==
  IF n < 10 THEN <<DigitChar(n)>>
  ELSE Digits(n \div 10) \o <<DigitChar(n % 10)>>

IntStr(n) == IF n < 0 THEN <<"-">> \o Digits(0 - n) ELSE Digits(n)

RECURSIVE JoinRepr(_)
\* str(x) for the value shapes a label can take (str and repr agree on
\* numbers, booleans and None; a list shows the repr of its items)
RECURSIVE PyStr(_)
PyStr(x) ==
  CASE x.t = "none" -> <<"N", "o", "n", "e">>
    [] x.t = "bool" -> IF x.v THEN <<"T", "r", "u", "e">>
                              ELSE <<"F", "a", "l", "s", "e">>
    [] x.t = "num"  -> IntStr(x.v \div Scale)
    [] x.t = "str"  -> x.v
    [] x.t = "list" -> <<"[">> \o JoinRepr(x.v) \o <<"]">>

PyRepr(x) == IF x.t = "str" THEN <<"'">> \o x.v \o <<"'">> ELSE PyStr(x)

JoinRepr(l) ==
  IF l = << >> THEN << >>
  ELSE IF Len(l) = 1 THEN PyRepr(l[1])
  ELSE PyRepr(l[1]) \o <<",", " ">> \o JoinRepr(Tail(l))

\* ------------------------------------------------------------------------
\* string literals of the source, as character sequences
\* ------------------------------------------------------------------------
S_empty == << >>
S_stroke == <<"#", "1", "e", "1", "e", "1", "e">>
S_transparent == <<"t", "r", "a", "n", "s", "p", "a", "r", "e", "n", "t">>
S_solid == <<"s", "o", "l", "i", "d">>
S_text == <<"t", "e", "x", "t">>
S_center == <<"c", "e", "n", "t", "e", "r">>
S_middle == <<"m", "i", "d", "d", "l", "e">>
S_left == <<"l", "e", "f", "t">>
S_top == <<"t", "o", "p">>
S_arrow == <<"a", "r", "r", "o", "w">>
S_line == <<"l", "i", "n", "e">>
S_excalidraw == <<"e", "x", "c", "a", "l", "i", "d", "r", "a", "w">>
S_parsed == <<"p", "a", "r", "s", "e", "d">>
NL == <<"\n">>
BR == <<"<", "b", "r", ">">>
BRSlash == <<"<", "b", "r", "/", ">">>
BRSpaceSlash == <<"<", "b", "r", " ", "/", ">">>

\* ------------------------------------------------------------------------
\* excalidraw.py : ExcalidrawElement
\* ------------------------------------------------------------------------
\* the dataclass fields without a default (id .. height)
RequiredFields == <<"id", "type", "x", "y", "width", "height">>

\* the dataclass fields with a default, in declaration order
FieldDefaults ==
  << Entry("angle", Num(0)),
     Entry("strokeColor", Str(S_stroke)),
     Entry("backgroundColor", Str(S_transparent)),
     Entry("fillStyle", Str(S_solid)),
     Entry("strokeWidth", Num(2)),
     Entry("strokeStyle", Str(S_solid)),
     Entry("roughness", Num(1)),
     Entry("opacity", Num(100)),
     Entry("groupIds", List(<< >>)),
     Entry("frameId", None),
     Entry("roundness", None),
     Entry("seed", Num(1)),
     Entry("version", Num(1)),
     Entry("versionNonce", Num(1)),
     Entry("isDeleted", Bool(FALSE)),
     Entry("boundElements", List(<< >>)),
     Entry("updated", Num(1)),
     Entry("link", None),
     Entry("locked", Bool(FALSE)) >>

OptionalFields == [i \in DOMAIN FieldDefaults |-> FieldDefaults[i].k]

\* the keys of to_dict, in order
FieldOrder == RequiredFields \o OptionalFields

known_fields == {FieldOrder[i] : i \in DOMAIN FieldOrder}

\* ExcalidrawElement(**kwargs, extra_fields=extra): the generated __init__
\* raises TypeError when a field without default is not passed
ExcalidrawElement(kwargs, extra) ==
  IF \E i \in DOMAIN RequiredFields : ~Has(kwargs, RequiredFields[i])
    THEN Raise("TypeError")
    ELSE [t |-> "element",
          fields |-> [i \in DOMAIN FieldOrder |->
                        Entry(FieldOrder[i],
                              Get(kwargs, FieldOrder[i],
                                  Get(FieldDefaults, FieldOrder[i], None)))],
          extra_fields |-> extra]

from_dict(data) ==
  ExcalidrawElement(Restrict(data, known_fields, TRUE),
                    Restrict(data, known_fields, FALSE))

to_dict(e) == Update(e.fields, e.extra_fields)

\* ------------------------------------------------------------------------
\* excalidraw.py : ExcalidrawElementProcessor
\* ------------------------------------------------------------------------
\* the break variants cut out instead of turned into newlines
sanitize_text_cut(text) ==
  IF ~Truthy(text) THEN text
  ELSE IF text.t # "str" THEN Raise("AttributeError")
  ELSE Str(Replace(Replace(Replace(text.v, BR, << >>), BRSlash, << >>),
                   BRSpaceSlash, << >>))

\* sanitize_text; str.replace on a value that is not a str raises
sanitize_text(text) ==
  IF ~Truthy(text) THEN text
  ELSE IF text.t # "str" THEN Raise("AttributeError")
  ELSE Str(Replace(Replace(Replace(text.v, BR, NL), BRSlash, NL),
                   BRSpaceSlash, NL))

extract_label_text(label) ==
  IF label.t = "dict" THEN Get(label.v, "text", Str(S_empty))
  ELSE IF Truthy(label) THEN Str(PyStr(label)) ELSE Str(S_empty)

\* arithmetic on the scaled payloads
NumV(n) == [t |-> "num", v |-> n]
TextWidth(text, font_size) == NumV((Len(text.v) * font_size.v * 6) \div 10)
TextHeight(font_size) == NumV((font_size.v * 125) \div 100)
\* the inner box put at the far edge of the outer one
FarEdge(pos, size, inner) == NumV(pos.v + (size.v - inner.v))

Centered(pos, size, inner) == NumV(pos.v + ((size.v - inner.v) \div 2))

\* the ExcalidrawElement(...) call at the end of
\* _create_text_element_for_label
LabelTextElement(container, text, original_data, text_id, font_size, text_width, text_height) ==
  ExcalidrawElement(
    << Entry("id", Str(text_id)),
       Entry("type", Str(S_text)),
       Entry("x", Centered(Get(container.fields, "x", None),
                           Get(container.fields, "width", None), text_width)),
       Entry("y", Centered(Get(container.fields, "y", None),
                           Get(container.fields, "height", None),
                           text_height)),
       Entry("width", text_width),
       Entry("height", text_height),
       Entry("strokeColor", Get(container.fields, "strokeColor", None)),
       Entry("backgroundColor", Str(S_transparent)) >>,
    << Entry("text", text),
       Entry("fontSize", font_size),
       Entry("fontFamily", Get(original_data, "fontFamily", Num(1))),
       Entry("textAlign", Str(S_center)),
       Entry("verticalAlign", Str(S_middle)),
       Entry("baseline", Num(18)),
       Entry("containerId", Get(container.fields, "id", None)),
       Entry("originalText", text),
       Entry("autoResize", Bool(TRUE)),
       Entry("lineHeight", NumV(50)) >>)

\* text_width and text_height for a font size
SizedTextElement(container, text, original_data, text_id, font_size) ==
  LabelTextElement(container, text, original_data, text_id, font_size,
                   TextWidth(text, font_size), TextHeight(font_size))

create_text_element_for_label(container, text, original_data, text_id) ==
  SizedTextElement(container, text, original_data, text_id,
                   Get(original_data, "fontSize", Num(20)))

\* the boundElements entry written on a container
BoundText(text_id) ==
  List(<<Dict(<<Entry("type", Str(S_text)), Entry("id", text_id)>>)>>)

\* the container's boundElements extended instead of replaced
SetBoundAppend(element, text_element) ==
  [element EXCEPT !.fields =
     Put(@, "boundElements",
         List(Get(@, "boundElements", None).v
              \o BoundText(Get(text_element.fields, "id", None)).v))]

\* element.boundElements = [{"type": "text", "id": text_element.id}]
SetBound(element, text_element) ==
  [element EXCEPT !.fields =
     Put(@, "boundElements", BoundText(Get(text_element.fields, "id", None)))]

\* results.extend([element, text_element])
WithTextElement(element, text_element) ==
  List(<<SetBound(element, text_element), text_element>>)

\* the same branch with the boundElements of an unexpanded container reset
ExpandLabelResetting(element, label_text, element_data, text_id) ==
  IF IsRaise(label_text) THEN label_text
  ELSE IF Truthy(label_text)
    THEN WithTextElement(element,
           create_text_element_for_label(element, label_text, element_data,
                                         text_id))
    ELSE List(<<[element EXCEPT !.fields =
                   Put(@, "boundElements", List(<< >>))]>>)

\* the branch of process_element taken for a truthy label, label_text being
\* the sanitised label text
ExpandLabel(element, label_text, element_data, text_id) ==
  IF IsRaise(label_text) THEN label_text
  ELSE IF Truthy(label_text)
    THEN WithTextElement(element,
           create_text_element_for_label(element, label_text, element_data,
                                         text_id))
    ELSE List(<<element>>)

\* process_element after element = ExcalidrawElement.from_dict(element_data)
ProcessLabel(element, element_data, text_id) ==
  IF IsRaise(element) THEN element
  ELSE IF Has(element_data, "label")
          /\ Truthy(Get(element_data, "label", None))
    THEN ExpandLabel(element,
           sanitize_text(extract_label_text(Get(element_data, "label", None))),
           element_data, text_id)
    ELSE List(<<element>>)

\* process_element: the list of elements for one raw record, or the
\* exception it raises; text_id is what generate_id returns if it is called
process_element(element_data, text_id) ==
  ProcessLabel(from_dict(element_data), element_data, text_id)

\* what the next call of generate_id returns: the head of the sequence of
\* ids the random source is going to produce
NextId(ids) == IF ids = << >> THEN S_empty ELSE Head(ids)

\* the second result put in front of the first
ExtendFront(a, b) ==
  IF IsRaise(a) THEN a ELSE IF IsRaise(b) THEN b ELSE List(b.v \o a.v)

\* a.extend(b) for two results, an exception in either one propagating
Extend(a, b) ==
  IF IsRaise(a) THEN a ELSE IF IsRaise(b) THEN b ELSE List(a.v \o b.v)

\* the loop of with_elements: processed.extend(process_element(...))
RECURSIVE process_all(_, _)
ProcessRest(first, raw, ids) ==
  IF IsRaise(first) THEN first
  ELSE Extend(first,
              process_all(Tail(raw),
                          IF Len(first.v) = 2 THEN Tail(ids) ELSE ids))

process_all(raw, ids) ==
  IF raw = << >> THEN List(<< >>)
  ELSE ProcessRest(process_element(Head(raw), NextId(ids)), raw, ids)

\* ------------------------------------------------------------------------
\* excalidraw.py : ExcalidrawTextExtractor
\* ------------------------------------------------------------------------
\* the text content with the label looked at before the text field
get_text_content_label_first(element) ==
  LET label == Get(element, "label", None)
  IN IF Has(element, "label") /\ label.t = "dict"
       THEN Get(label.v, "text", Str(S_empty))
     ELSE IF Has(element, "label") /\ label.t = "str"
       THEN label
     ELSE IF Has(element, "text") /\ Truthy(Get(element, "text", None))
       THEN Get(element, "text", None)
     ELSE None

get_text_content(element) ==
  LET label == Get(element, "label", None)
  IN IF Has(element, "text") /\ Truthy(Get(element, "text", None))
       THEN Get(element, "text", None)
     ELSE IF Has(element, "label") /\ label.t = "dict"
       THEN Get(label.v, "text", Str(S_empty))
     ELSE IF Has(element, "label") /\ label.t = "str"
       THEN label
     ELSE None

\* the line with the block id put in front of the text
IndexLineIdFirst(text_content, block_id) ==
  Str(block_id \o <<" ", "^">> \o text_content.v)

\* f"{text_content} ^{block_id}"
IndexLine(text_content, block_id) ==
  Str(text_content.v \o <<" ", "^">> \o block_id)

\* texts.append(line) before the lines of the remaining elements
Prepend(line, rest) == IF IsRaise(rest) THEN rest ELSE List(<<line>> \o rest.v)

\* extract_texts: the list of lines, or the exception raised by .strip()
\* on a content that is not a str
RECURSIVE extract_texts(_, _)
ExtractFrom(text_content, raw, ids) ==
  IF ~Truthy(text_content) THEN extract_texts(Tail(raw), ids)
  ELSE IF text_content.t # "str" THEN Raise("AttributeError")
  ELSE IF Strip(text_content.v) = << >> THEN extract_texts(Tail(raw), ids)
  ELSE Prepend(IndexLine(text_content, NextId(ids)),
               extract_texts(Tail(raw), Tail(ids)))

extract_texts(raw, ids) ==
  IF raw = << >> THEN List(<< >>)
  ELSE ExtractFrom(get_text_content(Head(raw)), raw, ids)

\* sep.join(lines) for a list of str
RECURSIVE Join(_, _)
Join(lines, sep) ==
  IF lines = << >> THEN << >>
  ELSE IF Len(lines) = 1 THEN lines[1].v
  ELSE lines[1].v \o sep \o Join(Tail(lines), sep)

\* ------------------------------------------------------------------------
\* excalidraw.py : ExcalidrawNoteBuilder
\* ------------------------------------------------------------------------
DEFAULT_APP_STATE ==
  Dict(<< Entry("theme", Str(<<"light">>)),
          Entry("viewBackgroundColor", Str(<<"#ffffff">>)),
          Entry("currentItemStrokeColor", Str(S_stroke)),
          Entry("currentItemBackgroundColor", Str(S_transparent)),
          Entry("currentItemFillStyle", Str(S_solid)),
          Entry("currentItemStrokeWidth", Num(2)),
          Entry("currentItemStrokeStyle", Str(S_solid)),
          Entry("currentItemRoughness", Num(1)),
          Entry("currentItemOpacity", Num(100)),
          Entry("currentItemFontFamily", Num(1)),
          Entry("currentItemFontSize", Num(20)),
          Entry("currentItemTextAlign", Str(S_left)),
          Entry("currentItemStartArrowhead", None),
          Entry("currentItemEndArrowhead", Str(S_arrow)),
          Entry("scrollX", Num(0)),
          Entry("scrollY", Num(0)),
          Entry("zoom", Dict(<<Entry("value", Num(1))>>)),
          Entry("currentItemRoundness", Str(<<"round">>)),
          Entry("gridSize", None),
          Entry("gridColor", Dict(<< Entry("Bold", Str(<<"#C9C9C9FF">>)),
                                     Entry("Regular", Str(<<"#EDEDEDFF">>)) >>)),
          Entry("currentStrokeOptions", None),
          Entry("previousGridSize", None),
          Entry("frameRendering", Dict(<< Entry("enabled", Bool(TRUE)),
                                          Entry("clip", Bool(TRUE)),
                                          Entry("name", Bool(TRUE)),
                                          Entry("outline", Bool(TRUE)) >>)) >>)

DefaultTags == List(<<Str(S_excalidraw)>>)

\* __init__
NewBuilder ==
  [t |-> "builder",
   elements |-> << >>,
   app_state |-> DEFAULT_APP_STATE,
   frontmatter |-> << Entry("excalidraw-plugin", Str(S_parsed)),
                      Entry("tags", DefaultTags) >>,
   text_elements |-> Str(S_empty)]

\* the methods, on the record of the builder's attributes

\* self.elements = [e.to_dict() for e in processed]
SetElements(self, processed) ==
  IF IsRaise(processed) THEN processed
  ELSE [self EXCEPT !.elements =
          [i \in DOMAIN processed.v |-> Dict(to_dict(processed.v[i]))]]

with_elements(self, raw, ids) == SetElements(self, process_all(raw, ids))

with_app_state(self, arg) ==
  IF Truthy(arg) THEN [self EXCEPT !.app_state = arg] ELSE self

\* if "tags" not in self.frontmatter: self.frontmatter["tags"] = [...]
EnsureTags(merged) ==
  IF ~Has(merged, "tags") THEN Put(merged, "tags", DefaultTags) ELSE merged

with_frontmatter(self, arg) ==
  [self EXCEPT !.frontmatter = EnsureTags(Update(@, arg.v))]

with_text_elements(self, text) == [self EXCEPT !.text_elements = text]

\* self.text_elements = "\n\n".join(texts)
SetTextElements(self, texts) ==
  IF IsRaise(texts) THEN texts
  ELSE [self EXCEPT !.text_elements = Str(Join(texts.v, <<"\n", "\n">>))]

auto_extract_text_elements(self, raw, ids) ==
  SetTextElements(self, extract_texts(raw, ids))

\* the scene graph of build() and of the tool handler
ExcalidrawData(elems, appState) ==
  Dict(<< Entry("type", Str(S_excalidraw)),
          Entry("version", Num(2)),
          Entry("source",
            Str(<<"https://github.com/zsviczian/obsidian-excalidraw-plugin">>)),
          Entry("elements", List(elems)),
          Entry("appState", appState),
          Entry("files", Dict(<< >>)) >>)

\* s.lower() on the characters of s
Lower(s) ==
  LET upper == << "A", "B", "C", "D", "E", "F", "G", "H", "I", "J", "K", "L",
                  "M", "N", "O", "P", "Q", "R", "S", "T", "U", "V", "W", "X",
                  "Y", "Z" >>
      lower == << "a", "b", "c", "d", "e", "f", "g", "h", "i", "j", "k", "l",
                  "m", "n", "o", "p", "q", "r", "s", "t", "u", "v", "w", "x",
                  "y", "z" >>
  IN [i \in DOMAIN s |->
        IF \E j \in DOMAIN upper : upper[j] = s[i]
          THEN lower[CHOOSE j \in DOMAIN upper : upper[j] = s[i]]
          ELSE s[i]]

\* the fixed lines of a note; the grave accent of a code fence is the token
\* "GRAVE"
Fixed ==
  [ dashes |-> <<"-", "-", "-">>,
    banner |->
      <<"==⚠ Switch to EXCALIDRAW VIEW in the MORE OPTIONS menu of this document. ⚠==">>,
    data |-> <<"# Excalidraw Data">>,
    text |-> <<"## Text Elements">>,
    comment |-> <<"%", "%">>,
    drawing |-> <<"## Drawing">>,
    fence |-> <<"GRAVE", "GRAVE", "GRAVE", "j", "s", "o", "n">>,
    close |-> <<"GRAVE", "GRAVE", "GRAVE">> ]

\* "\n".join(lines) for a sequence of character sequences
JoinLines(lines) == Join([i \in DOMAIN lines |-> Str(lines[i])], NL)

\* lines.append(f"  - {item}") for item in value
RECURSIVE ItemLines(_)
ItemLines(items) ==
  IF items = << >> THEN << >>
  ELSE <<<<" ", " ", "-", " ">> \o PyStr(Head(items))>>
       \o ItemLines(Tail(items))

\* the lines of one key with a boolean formatted like any other scalar
EntryLinesPlain(e) ==
  IF e.v.t = "list" THEN <<<<e.k, ":">>>> \o ItemLines(e.v.v)
  ELSE <<<<e.k, ":", " ">> \o PyStr(e.v)>>

\* the frontmatter lines of one key: a key of the mapping is one token
EntryLines(e) ==
  IF e.v.t = "list" THEN <<<<e.k, ":">>>> \o ItemLines(e.v.v)
  ELSE IF e.v.t = "bool" THEN <<<<e.k, ":", " ">> \o Lower(PyStr(e.v))>>
  ELSE <<<<e.k, ":", " ">> \o PyStr(e.v)>>

RECURSIVE FrontmatterLines(_)
FrontmatterLines(fm) ==
  IF fm = << >> THEN << >>
  ELSE EntryLines(Head(fm)) \o FrontmatterLines(Tail(fm))

\* _build_frontmatter
build_frontmatter(self) ==
  JoinLines(<<Fixed.dashes>> \o FrontmatterLines(self.frontmatter)
            \o <<Fixed.dashes>>)

\* "\n".join(parts): the text before the json.dumps(...) part, the mapping
\* that is dumped, and the text after it
NoteText(frontmatter_block, text_index, excalidraw_data) ==
  [head |-> Join(<< Str(frontmatter_block), Str(S_empty), Str(Fixed.banner),
                   Str(S_empty), Str(Fixed.data), Str(S_empty),
                   Str(Fixed.text), text_index, Str(Fixed.comment),
                   Str(Fixed.drawing), Str(Fixed.fence) >>, NL) \o NL,
   json |-> excalidraw_data,
   tail |-> NL \o JoinLines(<<Fixed.close, Fixed.comment>>)]

\* the note returned by build(): its text, and the parts that vary
Assemble(self, frontmatter_block, excalidraw_data) ==
  [t |-> "note",
   frontmatter |-> self.frontmatter,
   text_elements |-> self.text_elements,
   excalidraw_data |-> excalidraw_data,
   document |-> NoteText(frontmatter_block, self.text_elements,
                         excalidraw_data)]

\* build()
build(self) ==
  Assemble(self, build_frontmatter(self),
           ExcalidrawData(self.elements, self.app_state))

\* the ids left in the random source after the extraction produced lines
Taken(ids, texts) ==
  IF IsRaise(texts) THEN ids ELSE SubSeq(ids, Len(texts.v) + 1, Len(ids))

\* the steps of build_excalidraw_note, each on the builder of the step before
FrontmatterStep(builder, frontmatter_arg) ==
  IF Truthy(frontmatter_arg) THEN with_frontmatter(builder, frontmatter_arg)
  ELSE builder

AppStateStep(builder, app_state_arg) ==
  IF Truthy(app_state_arg) THEN with_app_state(builder, app_state_arg)
  ELSE builder

TextStep(builder, raw, text_arg, ids) ==
  IF Truthy(text_arg) THEN with_text_elements(builder, text_arg)
  ELSE auto_extract_text_elements(builder, raw, ids)

ElementsStep(builder, raw, ids) ==
  IF IsRaise(builder) THEN builder ELSE with_elements(builder, raw, ids)

BuildStep(builder) == IF IsRaise(builder) THEN builder ELSE build(builder)

\* build_excalidraw_note(elements, app_state, frontmatter, text_elements)
build_excalidraw_note(raw, app_state_arg, frontmatter_arg, text_arg, ids) ==
  BuildStep(
    ElementsStep(
      TextStep(AppStateStep(FrontmatterStep(NewBuilder, frontmatter_arg),
                            app_state_arg),
               raw, text_arg, ids),
      raw,
      IF Truthy(text_arg) THEN ids ELSE Taken(ids, extract_texts(raw, ids))))

\* ------------------------------------------------------------------------
\* tools.py : SaveExcalidrawToolHandler._build_excalidraw_note
\* ------------------------------------------------------------------------
\* the element.get(key, default) table of processed_element
HandlerDefaults ==
  << Entry("id", Str(S_empty)),
     Entry("type", Str(S_empty)),
     Entry("x", Num(0)),
     Entry("y", Num(0)),
     Entry("width", Num(0)),
     Entry("height", Num(0)),
     Entry("angle", Num(0)),
     Entry("strokeColor", Str(S_stroke)),
     Entry("backgroundColor", Str(S_transparent)),
     Entry("fillStyle", Str(S_solid)),
     Entry("strokeWidth", Num(2)),
     Entry("strokeStyle", Str(S_solid)),
     Entry("roughness", Num(1)),
     Entry("opacity", Num(100)),
     Entry("groupIds", List(<< >>)),
     Entry("frameId", None),
     Entry("roundness", None),
     Entry("seed", Num(1)),
     Entry("version", Num(1)),
     Entry("versionNonce", Num(1)),
     Entry("isDeleted", Bool(FALSE)),
     Entry("boundElements", List(<< >>)),
     Entry("updated", Num(1)),
     Entry("link", None),
     Entry("locked", Bool(FALSE)) >>

\* processed_element written with `element.get(key) or default`
ProcessedElementOrDefault(element) ==
  [i \in DOMAIN HandlerDefaults |->
     Entry(HandlerDefaults[i].k,
           IF Truthy(Get(element, HandlerDefaults[i].k, None))
             THEN Get(element, HandlerDefaults[i].k, None)
             ELSE HandlerDefaults[i].v)]

ProcessedElement(element) ==
  [i \in DOMAIN HandlerDefaults |->
     Entry(HandlerDefaults[i].k,
           Get(element, HandlerDefaults[i].k, HandlerDefaults[i].v))]

IsArrowOrLine(element) ==
  \/ Get(element, "type", None) = Str(S_arrow)
  \/ Get(element, "type", None) = Str(S_line)

\* the type-specific fields of an arrow or a line
WithArrowFields(processed_element, element) ==
  IF IsArrowOrLine(element)
    THEN processed_element \o
         << Entry("points",
              Get(element, "points",
                  List(<< List(<<Num(0), Num(0)>>),
                          List(<< Get(element, "width", Num(100)),
                                  Get(element, "height", Num(0)) >>) >>))),
            Entry("lastCommittedPoint",
                  Get(element, "lastCommittedPoint", None)),
            Entry("startBinding", Get(element, "startBinding", None)),
            Entry("endBinding", Get(element, "endBinding", None)),
            Entry("startArrowhead", Get(element, "startArrowhead", None)),
            Entry("endArrowhead", Get(element, "endArrowhead", Str(S_arrow))) >>
    ELSE processed_element

\* the fields of a direct text element
WithTextFields(processed_element, element) ==
  processed_element \o
  << Entry("text", Get(element, "text", None)),
     Entry("fontSize", Get(element, "fontSize", Num(20))),
     Entry("fontFamily", Get(element, "fontFamily", Num(1))),
     Entry("textAlign", Get(element, "textAlign", Str(S_left))),
     Entry("verticalAlign", Get(element, "verticalAlign", Str(S_top))),
     Entry("baseline", Get(element, "baseline", Num(18))),
     Entry("containerId", Get(element, "containerId", None)),
     Entry("originalText",
           Get(element, "originalText", Get(element, "text", None))),
     Entry("autoResize", Get(element, "autoResize", Bool(TRUE))),
     Entry("lineHeight", Get(element, "lineHeight", NumV(50))) >>

\* label_text.replace(...) when label_text is truthy
HandlerReplace(label_text) ==
  IF ~Truthy(label_text) THEN label_text
  ELSE IF label_text.t # "str" THEN Raise("AttributeError")
  ELSE Str(Replace(Replace(Replace(label_text.v, BR, NL), BRSlash, NL),
                   BRSpaceSlash, NL))

\* element["label"].get("text", "") if it is a dict, else element["label"]
HandlerLabelOf(label) ==
  IF label.t = "dict" THEN Get(label.v, "text", Str(S_empty)) ELSE label

\* label_text after the <br> replacement
HandlerLabelText(element) ==
  HandlerReplace(HandlerLabelOf(Get(element, "label", None)))

\* the text_element dict
HandlerTextDict(element, label_text, text_id, font_size, text_width, text_height) ==
  << Entry("id", Str(text_id)),
     Entry("type", Str(S_text)),
     Entry("x", Centered(Get(element, "x", Num(0)),
                         Get(element, "width", Num(0)), text_width)),
     Entry("y", Centered(Get(element, "y", Num(0)),
                         Get(element, "height", Num(0)), text_height)),
     Entry("width", text_width),
     Entry("height", text_height),
     Entry("angle", Num(0)),
     Entry("strokeColor", Get(element, "strokeColor", Str(S_stroke))),
     Entry("backgroundColor", Str(S_transparent)),
     Entry("fillStyle", Str(S_solid)),
     Entry("strokeWidth", Num(2)),
     Entry("strokeStyle", Str(S_solid)),
     Entry("roughness", Num(1)),
     Entry("opacity", Num(100)),
     Entry("groupIds", List(<< >>)),
     Entry("frameId", None),
     Entry("roundness", None),
     Entry("seed", Num(1)),
     Entry("version", Num(1)),
     Entry("versionNonce", Num(1)),
     Entry("isDeleted", Bool(FALSE)),
     Entry("boundElements", List(<< >>)),
     Entry("updated", Num(1)),
     Entry("link", None),
     Entry("locked", Bool(FALSE)),
     Entry("text", label_text),
     Entry("fontSize", font_size),
     Entry("fontFamily", Get(element, "fontFamily", Num(1))),
     Entry("textAlign", Str(S_center)),
     Entry("verticalAlign", Str(S_middle)),
     Entry("containerId", Get(element, "id", Str(S_empty))),
     Entry("originalText", label_text),
     Entry("autoResize", Bool(TRUE)),
     Entry("lineHeight", NumV(50)) >>

HandlerSizedText(element, label_text, text_id, font_size) ==
  HandlerTextDict(element, label_text, text_id, font_size,
                  TextWidth(label_text, font_size), TextHeight(font_size))

\* the text element created for a label
HandlerTextElement(element, label_text, text_id) ==
  HandlerSizedText(element, label_text, text_id,
                   Get(element, "fontSize", Num(20)))

\* the branch taken for a truthy label
HandlerExpandLabel(processed_element, element, label_text, text_id) ==
  IF IsRaise(label_text) THEN label_text
  ELSE IF Truthy(label_text)
    THEN List(<< Dict(Put(processed_element, "boundElements",
                          BoundText(Str(text_id)))),
                 Dict(HandlerTextElement(element, label_text, text_id)) >>)
    ELSE List(<<Dict(processed_element)>>)

\* the label / text / plain branches, processed_element carrying the schema
\* and the arrow fields
HandlerBranch(processed_element, element, text_id) ==
  IF Has(element, "label") /\ Truthy(Get(element, "label", None))
    THEN HandlerExpandLabel(processed_element, element,
                            HandlerLabelText(element), text_id)
  ELSE IF Has(element, "text")
    THEN List(<<Dict(WithTextFields(processed_element, element))>>)
  ELSE List(<<Dict(processed_element)>>)

\* one iteration of the loop over elements: the dicts appended to
\* processed_elements, or the exception raised
HandlerProcess(element, text_id) ==
  HandlerBranch(WithArrowFields(ProcessedElement(element), element),
                element, text_id)

RECURSIVE HandlerProcessAll(_, _)
HandlerProcessRest(first, raw, ids) ==
  IF IsRaise(first) THEN first
  ELSE Extend(first,
              HandlerProcessAll(Tail(raw),
                                IF Len(first.v) = 2 THEN Tail(ids) ELSE ids))

HandlerProcessAll(raw, ids) ==
  IF raw = << >> THEN List(<< >>)
  ELSE HandlerProcessRest(HandlerProcess(Head(raw), NextId(ids)), raw, ids)

\* the text_content found for one element by the inline extraction
HandlerTextContent(element) ==
  LET label == Get(element, "label", None)
  IN IF Has(element, "text") /\ Truthy(Get(element, "text", None))
       THEN Get(element, "text", None)
     ELSE IF Has(element, "label") /\ label.t = "dict"
       THEN Get(label.v, "text", Str(S_empty))
     ELSE IF Has(element, "label") /\ label.t = "str"
       THEN label
     ELSE None

RECURSIVE HandlerExtract(_, _)
HandlerExtractFrom(text_content, raw, ids) ==
  IF ~Truthy(text_content) THEN HandlerExtract(Tail(raw), ids)
  ELSE IF text_content.t # "str" THEN Raise("AttributeError")
  ELSE IF Strip(text_content.v) = << >> THEN HandlerExtract(Tail(raw), ids)
  ELSE Prepend(IndexLine(text_content, NextId(ids)),
               HandlerExtract(Tail(raw), Tail(ids)))

HandlerExtract(raw, ids) ==
  IF raw = << >> THEN List(<< >>)
  ELSE HandlerExtractFrom(HandlerTextContent(Head(raw)), raw, ids)

\* final_frontmatter
HandlerFrontmatter(frontmatter_arg) ==
  Update(<< Entry("excalidraw-plugin", Str(S_parsed)),
            Entry("tags", Get(frontmatter_arg.v, "tags", DefaultTags)) >>,
         frontmatter_arg.v)

\* the loop over final_frontmatter.items()
RECURSIVE HandlerFrontmatterLines(_)
HandlerFrontmatterLines(fm) ==
  IF fm = << >> THEN << >>
  ELSE (IF Head(fm).v.t = "list"
          THEN <<<<Head(fm).k, ":">>>> \o ItemLines(Head(fm).v.v)
        ELSE IF Head(fm).v.t = "bool"
          THEN <<<<Head(fm).k, ":", " ">> \o Lower(PyStr(Head(fm).v))>>
        ELSE <<<<Head(fm).k, ":", " ">> \o PyStr(Head(fm).v)>>)
       \o HandlerFrontmatterLines(Tail(fm))

\* note_parts joined: the text of the note, and the parts that vary
HandlerAssemble(final_frontmatter, text_elements_, excalidraw_data) ==
  [t |-> "note",
   frontmatter |-> final_frontmatter,
   text_elements |-> text_elements_,
   excalidraw_data |-> excalidraw_data,
   document |->
     NoteText(JoinLines(<<Fixed.dashes>>
                        \o HandlerFrontmatterLines(final_frontmatter)
                        \o <<Fixed.dashes>>),
              IF Truthy(text_elements_) THEN text_elements_ ELSE Str(S_empty),
              excalidraw_data)]

\* the note, from the extracted lines and the processed elements
HandlerNote(appState, frontmatter_arg, text_arg, texts, processed_elements) ==
  IF frontmatter_arg.t # "dict" THEN Raise("AttributeError")
  ELSE IF IsRaise(texts) THEN texts
  ELSE IF IsRaise(processed_elements) THEN processed_elements
  ELSE HandlerAssemble(
         HandlerFrontmatter(frontmatter_arg),
         IF Truthy(text_arg) THEN text_arg
         ELSE Str(Join(texts.v, <<"\n", "\n">>)),
         ExcalidrawData(processed_elements.v,
                        IF appState.t = "none" THEN DEFAULT_APP_STATE
                        ELSE appState))

\* the two loops, the second with the ids the first left
HandlerLoops(raw, appState, frontmatter_arg, text_arg, ids, texts) ==
  HandlerNote(appState, frontmatter_arg, text_arg, texts,
              HandlerProcessAll(raw, Taken(ids, texts)))

\* _build_excalidraw_note(elements, appState, frontmatter, text_elements)
handler_build_excalidraw_note(raw, appState, frontmatter_arg, text_arg, ids) ==
  HandlerLoops(raw, appState, frontmatter_arg, text_arg, ids,
               IF Truthy(text_arg) THEN List(<< >>)
               ELSE HandlerExtract(raw, ids))

\* ------------------------------------------------------------------------
\* the caller's objects: a list or a dict is passed by reference, so a
\* statement that writes to it changes what the caller holds
\* ------------------------------------------------------------------------
\* the list or dict x as the caller's object with address a
At(a, x) == [t |-> x.t, v |-> x.v, at |-> a]
Shared(x) == "at" \in DOMAIN x

\* the entries of a mapping of the caller, its lists and dicts being objects
\* of their own
ByReference(d, i) ==
  [j \in DOMAIN d |->
     IF d[j].v.t \in {"list", "dict"}
       THEN Entry(d[j].k, At(<<d[j].k, i>>, d[j].v))
       ELSE d[j]]

\* the arguments as the callee receives them
Arguments(in) ==
  [elements |-> [i \in DOMAIN in.elements |-> ByReference(in.elements[i], i)],
   app_state |-> IF in.app_state.t = "dict"
                   THEN At(<<"app_state", 0>>, in.app_state)
                   ELSE in.app_state,
   frontmatter |-> At(<<"frontmatter", 0>>,
                      Dict(ByReference(in.frontmatter.v, 0))),
   text_elements |-> in.text_elements]

\* the objects the caller holds: address |-> content
SharedIn(d) == {d[j].v : j \in {j \in DOMAIN d : Shared(d[j].v)}}

Objects(args) ==
  UNION {SharedIn(args.elements[i]) : i \in DOMAIN args.elements}
  \cup SharedIn(args.frontmatter.v)
  \cup {args.frontmatter}
  \cup (IF Shared(args.app_state) THEN {args.app_state} ELSE {})

Heap(args) ==
  [a \in {x.at : x \in Objects(args)} \cup
         {<<"element", i>> : i \in DOMAIN args.elements} |->
     IF a[1] = "element" /\ a[2] > 0
       THEN Dict(args.elements[a[2]])
       ELSE CHOOSE x \in Objects(args) : x.at = a]

\* a statement that writes x to the object target: the caller's heap changes
\* when the target is one of the caller's objects
StoreTo(heap, target, x) ==
  IF Shared(target) THEN [heap EXCEPT ![target.at] = x] ELSE heap

\* the container's list of bound elements appended to in place
BoundStoreAppend(heap, element, text_element) ==
  StoreTo(heap, Get(element.fields, "boundElements", None),
          List(Get(element.fields, "boundElements", None).v
               \o BoundText(Get(text_element.fields, "id", None)).v))

\* element.boundElements = [...] in process_element: an attribute of the
\* element made by from_dict is rebound
BoundStore(heap, element, text_element) ==
  StoreTo(heap, element, SetBound(element, text_element))

\* the stores of the loop of with_elements, results being what
\* process_element returned for the first record
RECURSIVE ElementStores(_, _, _)
ElementStoresRest(heap, raw, ids, results) ==
  IF IsRaise(results) THEN heap
  ELSE IF Len(results.v) = 2
    THEN ElementStores(BoundStore(heap, from_dict(Head(raw)), results.v[2]),
                       Tail(raw), Tail(ids))
    ELSE ElementStores(heap, Tail(raw), ids)

ElementStores(heap, raw, ids) ==
  IF raw = << >> THEN heap
  ELSE ElementStoresRest(heap, raw, ids,
                         process_element(Head(raw), NextId(ids)))

\* self.frontmatter.update(frontmatter) and self.frontmatter["tags"] = [...]
\* in with_frontmatter: the dict made by __init__ is written
FrontmatterStores(heap, self, arg) ==
  IF Truthy(arg)
    THEN StoreTo(heap, Dict(self.frontmatter),
                 Dict(with_frontmatter(self, arg).frontmatter))
    ELSE heap

\* the caller's heap after build_excalidraw_note
BuilderStores(heap, args, ids) ==
  ElementStores(FrontmatterStores(heap, NewBuilder, args.frontmatter),
                args.elements, ids)

\* processed_element["boundElements"] = [...] in the tool handler: the dict
\* literal made for the record is written
RECURSIVE HandlerStores(_, _, _)
HandlerStoresRest(heap, raw, ids, appended) ==
  IF IsRaise(appended) THEN heap
  ELSE IF Len(appended.v) = 2
    THEN HandlerStores(StoreTo(heap, Dict(ProcessedElement(Head(raw))),
                               appended.v[1]),
                       Tail(raw), Tail(ids))
    ELSE HandlerStores(heap, Tail(raw), ids)

HandlerStores(heap, raw, ids) ==
  IF raw = << >> THEN heap
  ELSE HandlerStoresRest(heap, raw, ids,
                         HandlerProcess(Head(raw), NextId(ids)))

\* ------------------------------------------------------------------------
\* tools.py : the run_tool methods of the tool handlers
\* ------------------------------------------------------------------------
\* a call of a method of obsidian.Obsidian, the vault API client
Request(op, params) == [op |-> op, params |-> params]

\* what run_tool did: the value returned or the exception raised, and the
\* requests made to the vault API, in order
Outcome(r, reqs) == [ret |-> r, requests |-> reqs]

\* raise before api = obsidian.Obsidian(...)
Failed(e) == Outcome(Raise(e), << >>)

\* the TextContent list built from the response of the API
Response(op) == [t |-> "text", of |-> op]

\* ListFilesInDirToolHandler.run_tool
ListFilesInDirRunTool(args) ==
  IF ~Has(args, "dirpath") THEN Failed("RuntimeError")
  ELSE Outcome(Response("list_files_in_dir"),
               <<Request("list_files_in_dir", <<Get(args, "dirpath", None)>>)>>)

\* GetFileContentsToolHandler.run_tool
GetFileContentsRunTool(args) ==
  IF ~Has(args, "filepath") THEN Failed("RuntimeError")
  ELSE Outcome(Response("get_file_contents"),
               <<Request("get_file_contents",
                         <<Get(args, "filepath", None)>>)>>)

\* SearchToolHandler.run_tool
SearchRunTool(args) ==
  IF ~Has(args, "query") THEN Failed("RuntimeError")
  ELSE Outcome(Response("search"),
               <<Request("search", << Get(args, "query", None),
                                      Get(args, "context_length", Num(100)) >>)>>)

\* AppendContentToolHandler.run_tool
AppendContentRunTool(args) ==
  IF ~Has(args, "filepath") \/ ~Has(args, "content")
    THEN Failed("RuntimeError")
  ELSE Outcome(Response("append_content"),
               <<Request("append_content",
                         << Get(args, "filepath", Str(S_empty)),
                            Get(args, "content", None) >>)>>)

PatchArgs == {"filepath", "operation", "target_type", "target", "content"}

\* the request of PatchContentToolHandler.run_tool
PatchRequest(args) ==
  Request("patch_content",
          << Get(args, "filepath", Str(S_empty)),
             Get(args, "operation", Str(S_empty)),
             Get(args, "target_type", Str(S_empty)),
             Get(args, "target", Str(S_empty)),
             Get(args, "content", Str(S_empty)) >>)

\* run_tool with the guard `not any(k in args ...)`
PatchContentRunToolAny(args) ==
  IF ~(\E k \in PatchArgs : Has(args, k)) THEN Failed("RuntimeError")
  ELSE Outcome(Response("patch_content"), <<PatchRequest(args)>>)

\* PatchContentToolHandler.run_tool
PatchContentRunTool(args) ==
  IF ~(\A k \in PatchArgs : Has(args, k)) THEN Failed("RuntimeError")
  ELSE Outcome(Response("patch_content"), <<PatchRequest(args)>>)

\* PutContentToolHandler.run_tool
PutContentRunTool(args) ==
  IF ~Has(args, "filepath") \/ ~Has(args, "content")
    THEN Failed("RuntimeError")
  ELSE Outcome(Response("put_content"),
               <<Request("put_content",
                         << Get(args, "filepath", Str(S_empty)),
                            Get(args, "content", None) >>)>>)

\* DeleteFileToolHandler.run_tool
DeleteFileRunTool(args) ==
  IF ~Has(args, "filepath") THEN Failed("RuntimeError")
  ELSE IF ~Truthy(Get(args, "confirm", Bool(FALSE)))
    THEN Failed("RuntimeError")
  ELSE Outcome(Response("delete_file"),
               <<Request("delete_file", <<Get(args, "filepath", None)>>)>>)

\* ComplexSearchToolHandler.run_tool
ComplexSearchRunTool(args) ==
  IF ~Has(args, "query") THEN Failed("RuntimeError")
  ELSE Outcome(Response("search_json"),
               <<Request("search_json",
                         <<Get(args, "query", Str(S_empty))>>)>>)

\* BatchGetFileContentsToolHandler.run_tool
BatchGetFileContentsRunTool(args) ==
  IF ~Has(args, "filepaths") THEN Failed("RuntimeError")
  ELSE Outcome(Response("get_batch_file_contents"),
               <<Request("get_batch_file_contents",
                         <<Get(args, "filepaths", None)>>)>>)

valid_periods ==
  { Str(<<"daily">>), Str(<<"weekly">>), Str(<<"monthly">>),
    Str(<<"quarterly">>), Str(<<"yearly">>) }

valid_types == { Str(<<"content">>), Str(<<"metadata">>) }

\* PeriodicNotesToolHandler.run_tool
PeriodicNotesRunTool(args) ==
  IF ~Has(args, "period") THEN Failed("RuntimeError")
  ELSE IF Get(args, "period", None) \notin valid_periods
    THEN Failed("RuntimeError")
  ELSE IF Get(args, "type", Str(<<"content">>)) \notin valid_types
    THEN Failed("RuntimeError")
  ELSE Outcome(Response("get_periodic_note"),
               <<Request("get_periodic_note",
                         << Get(args, "period", None),
                            Get(args, "type", Str(<<"content">>)) >>)>>)

\* RecentPeriodicNotesToolHandler.run_tool; a bool is an int for isinstance,
\* False being below 1
RecentPeriodicNotesRunTool(args) ==
  IF ~Has(args, "period") THEN Failed("RuntimeError")
  ELSE IF Get(args, "period", None) \notin valid_periods
    THEN Failed("RuntimeError")
  ELSE IF \/ Get(args, "limit", Num(5)).t \notin {"num", "bool"}
          \/ Get(args, "limit", Num(5)) = Bool(FALSE)
          \/ /\ Get(args, "limit", Num(5)).t = "num"
             /\ Get(args, "limit", Num(5)).v < Scale
    THEN Failed("RuntimeError")
  ELSE IF Get(args, "include_content", Bool(FALSE)).t # "bool"
    THEN Failed("RuntimeError")
  ELSE Outcome(Response("get_recent_periodic_notes"),
               <<Request("get_recent_periodic_notes",
                         << Get(args, "period", None),
                            Get(args, "limit", Num(5)),
                            Get(args, "include_content", Bool(FALSE)) >>)>>)

S_md == <<".", "m", "d">>
S_excalidraw_md == <<".">> \o S_excalidraw \o S_md

\* s.endswith(suffix)
EndsWith(s, suffix) ==
  /\ Len(s) >= Len(suffix)
  /\ SubSeq(s, Len(s) - Len(suffix) + 1, Len(s)) = suffix

\* the path left as the caller gave it
SavePathAsGiven(filepath) == filepath

\* "Ensure filepath ends with .excalidraw.md"
SavePath(filepath) ==
  IF EndsWith(filepath, S_excalidraw_md) THEN filepath
  ELSE IF EndsWith(filepath, S_md)
    THEN Replace(filepath, S_md, S_excalidraw_md)
    ELSE filepath \o S_excalidraw_md

\* api.put_content(filepath, content) and the message returned, unless
\* building the content raised
SaveContent(filepath, content, elements_) ==
  IF IsRaise(content) THEN Outcome(content, << >>)
  ELSE Outcome([t |-> "text", of |-> "put_content",
                filepath |-> filepath, count |-> Len(elements_.v)],
               <<Request("put_content", <<Str(filepath), content>>)>>)

\* SaveExcalidrawToolHandler.run_tool
SaveExcalidrawRunTool(args, ids) ==
  IF ~Has(args, "filepath") \/ ~Has(args, "elements")
    THEN Failed("ValueError")
  ELSE SaveContent(
         SavePath(Get(args, "filepath", None).v),
         handler_build_excalidraw_note(
           Get(args, "elements", None).v,
           Get(args, "appState", None),
           Get(args, "frontmatter", Dict(<< >>)),
           Get(args, "text_elements", Str(S_empty)),
           ids),
         Get(args, "elements", None))

\* ------------------------------------------------------------------------
\* the inputs of the callers
\* ------------------------------------------------------------------------
\* optional schema fields a raw record supplies at most
MaxSupplied == 2
\* length of an element list at most
MaxElems == 2

\* ids the random source can produce
Ids == {<<"A">>, <<"B">>}

S_Hi == <<"H", "i">>
S_rectangle == <<"r", "e", "c", "t", "a", "n", "g", "l", "e">>

\* a complete record: id, type and geometry
BaseRecord(id, type) ==
  << Entry("id", Str(id)), Entry("type", Str(type)),
     Entry("x", Num(10)), Entry("y", Num(20)),
     Entry("width", Num(100)), Entry("height", Num(50)) >>

Rect(id) == BaseRecord(id, S_rectangle)

\* the record d without the keys in ks
Without(d, ks) == Restrict(d, ks, FALSE)

\* a value other than the default for each optional schema field
SuppliedValues ==
  << Entry("angle", Num(1)),
     Entry("strokeColor", Str(<<"#", "f", "0", "0">>)),
     Entry("backgroundColor", Str(<<"r", "e", "d">>)),
     Entry("fillStyle", Str(<<"hachure">>)),
     Entry("strokeWidth", Num(4)),
     Entry("strokeStyle", Str(<<"dashed">>)),
     Entry("roughness", Num(0)),
     Entry("opacity", Num(50)),
     Entry("groupIds", List(<<Str(<<"g", "1">>)>>)),
     Entry("frameId", Str(<<"f", "1">>)),
     Entry("roundness", Dict(<<Entry("type", Num(3))>>)),
     Entry("seed", Num(7)),
     Entry("version", Num(3)),
     Entry("versionNonce", Num(9)),
     Entry("isDeleted", Bool(TRUE)),
     Entry("boundElements",
           List(<<Dict(<< Entry("type", Str(S_arrow)),
                          Entry("id", Str(<<"a", "9">>)) >>)>>)),
     Entry("updated", Num(5)),
     Entry("link", Str(<<"u", "r", "l">>)),
     Entry("locked", Bool(TRUE)) >>

LabelHi == <<Entry("label", Str(S_Hi))>>

\* records that omit geometry fields, with and without a label
GeometryRecords ==
  { Without(Rect(<<"r", "1">>), ks) \o lab :
      ks \in SUBSET {"x", "y", "width", "height"}, lab \in {<< >>, LabelHi} }

\* records that supply at most MaxSupplied optional schema fields
OptionalRecords ==
  { Rect(<<"r", "1">>) \o Restrict(SuppliedValues, ks, TRUE) \o lab :
      ks \in {s \in SUBSET Keys(SuppliedValues) : Cardinality(s) <= MaxSupplied},
      lab \in {<< >>, LabelHi} }

\* records that carry keys outside the schema
UnknownFields ==
  << Entry("customData", Dict(<<Entry("a", Num(1))>>)),
     Entry("zzz", Num(7)) >>

UnknownRecords ==
  { Rect(<<"r", "1">>) \o Restrict(UnknownFields, ks, TRUE) \o lab :
      ks \in SUBSET Keys(UnknownFields), lab \in {<< >>, LabelHi} }

\* label values of every shape
LabelValues ==
  { Str(S_empty), Str(S_Hi), Str(<<" ">>), Str(<<"a">> \o BR \o <<"b">>),
    Str(BRSlash), Str(<<"x", " ">>),
    Dict(<<Entry("text", Str(S_Hi))>>), Dict(<< >>),
    Dict(<<Entry("text", Str(S_empty))>>),
    Dict(<<Entry("fontSize", Num(12))>>),
    Num(5), Num(0), List(<<Num(1)>>), List(<< >>),
    Bool(TRUE), Bool(FALSE), None }

TextValues == { Str(S_empty), Str(<<"T", "x">>), Str(<<" ">>) }

LabelRecords ==
  { Rect(<<"r", "1">>) \o bound \o font \o text \o <<Entry("label", lab)>> :
      lab \in LabelValues,
      bound \in {<< >>, Restrict(SuppliedValues, {"boundElements"}, TRUE)},
      font \in {<< >>, <<Entry("fontSize", Num(10))>>},
      text \in {<< >>} \cup {<<Entry("text", tx)>> : tx \in TextValues} }

\* direct text records
TextRecords ==
  { BaseRecord(<<"t", "1">>, S_text) \o <<Entry("text", tx)>> \o al :
      tx \in TextValues,
      al \in {<< >>, <<Entry("textAlign", Str(S_center))>>} }

\* arrows and lines
ArrowRecords ==
  { Without(BaseRecord(<<"a", "1">>, ty), ks) \o pts :
      ty \in {S_arrow, S_line},
      ks \in SUBSET {"width", "height"},
      pts \in {<< >>,
               <<Entry("points", List(<< List(<<Num(0), Num(0)>>),
                                         List(<<Num(5), Num(5)>>) >>))>>} }

\* labelled containers of several geometries and font sizes
CenteringRecords ==
  { << Entry("id", Str(<<"r", "1">>)), Entry("type", Str(S_rectangle)),
       Entry("x", Num(x)), Entry("y", Num(y)),
       Entry("width", Num(w)), Entry("height", Num(h)) >>
    \o font \o <<Entry("label", Str(lab))>> :
      x \in {0, 0 - 3}, y \in {0, 7}, w \in {100, 3}, h \in {50, 1},
      font \in {<< >>, <<Entry("fontSize", Num(16))>>,
                <<Entry("fontSize", Num(7))>>},
      lab \in {S_Hi, <<"a">> \o BR \o <<"b">>} }

AllRecords ==
  GeometryRecords \cup OptionalRecords \cup UnknownRecords
    \cup LabelRecords \cup TextRecords \cup ArrowRecords
    \cup CenteringRecords

\* the records that element lists of every length are built from
CoreRecords ==
  { Rect(<<"r", "1">>),
    Rect(<<"r", "2">>) \o LabelHi,
    BaseRecord(<<"t", "1">>, S_text) \o <<Entry("text", Str(<<"T", "x">>))>>,
    Rect(<<"r", "3">>) \o <<Entry("label", Dict(<<Entry("text", Str(BR))>>))>> }

CoreLists == UNION { [1..n -> CoreRecords] : n \in 0..MaxElems }

\* the element lists passed to the methods of a builder object
BuilderLists == { << >> } \cup { <<r>> : r \in CoreRecords }

AllLists == CoreLists \cup { <<r>> : r \in AllRecords }

AppStateValues ==
  { None, Dict(<< >>), Dict(<<Entry("theme", Str(<<"dark">>))>>),
    DEFAULT_APP_STATE }

FrontmatterDicts ==
  { Dict(<< >>),
    Dict(<<Entry("tags", List(<< >>))>>),
    Dict(<<Entry("tags", List(<<Str(<<"f", "o", "o">>)>>))>>),
    Dict(<<Entry("tags", List(<<Str(<<"f", "o", "o">>), Str(S_excalidraw)>>))>>),
    Dict(<<Entry("excalidraw-plugin", Str(<<"r", "a", "w">>))>>),
    Dict(<<Entry("title", Str(S_Hi)), Entry("pinned", Bool(TRUE))>>) }

TextIndexValues == { None, Str(S_empty), Str(<<"c", " ", "^", "X">>) }

Input(raw, app, fm, text) ==
  [elements |-> raw, app_state |-> app, frontmatter |-> fm,
   text_elements |-> text]

\* every element list with the other arguments left out, and a few element
\* lists with every combination of the other arguments
Inputs ==
  { Input(raw, None, Dict(<< >>), None) : raw \in AllLists }
  \cup
  { Input(raw, app, fm, text) :
      raw \in { <<>>, <<Rect(<<"r", "2">>) \o LabelHi>> },
      app \in AppStateValues, fm \in FrontmatterDicts,
      text \in TextIndexValues }

\* the ids the random source produces during one call: as many as the call
\* asks for (ids never decide a branch, so the count is that of any run)
Pad(raw) == [i \in 1..(2 * Len(raw)) |-> S_empty]

LinesOf(raw) ==
  LET texts == extract_texts(raw, Pad(raw))
  IN IF IsRaise(texts) THEN 0 ELSE Len(texts.v)

LabelsOf(raw) ==
  LET processed == process_all(raw, Pad(raw))
  IN IF IsRaise(processed) THEN 0 ELSE Len(processed.v) - Len(raw)

HandlerLabelsOf(raw) ==
  LET processed == HandlerProcessAll(raw, Pad(raw))
  IN IF IsRaise(processed) THEN 0 ELSE Len(processed.v) - Len(raw)

IdSeqs(n) == [1..n -> Ids]

\* the inputs of a caller that assembles the same note twice
TwiceRecords ==
  { Rect(<<"r", "1">>),
    Rect(<<"r", "2">>) \o LabelHi,
    BaseRecord(<<"t", "1">>, S_text) \o <<Entry("text", Str(<<"T", "x">>))>> }

TwiceInputs ==
  { Input(raw, None, Dict(<< >>), text) :
      raw \in UNION { [1..n -> TwiceRecords] : n \in 0..MaxElems },
      text \in {None, Str(<<"c", " ", "^", "X">>)} }

\* the inputs of a caller that keeps its arguments after the call: records
\* with and without lists of their own, a label that is expanded or not
FrameRecords ==
  { Rect(<<"r", "1">>)
      \o Restrict(SuppliedValues, {"groupIds", "boundElements"}, TRUE),
    Rect(<<"r", "2">>)
      \o Restrict(SuppliedValues, {"groupIds", "boundElements"}, TRUE)
      \o LabelHi,
    Rect(<<"r", "3">>) \o LabelHi,
    Rect(<<"r", "4">>) \o Restrict(SuppliedValues, {"boundElements"}, TRUE)
      \o <<Entry("label", Dict(<<Entry("text", Str(S_Hi))>>))>> }

FrameInputs ==
  { Input(raw, app, fm, Str(<<"c", " ", "^", "X">>)) :
      raw \in UNION { [1..n -> FrameRecords] : n \in 0..MaxElems },
      app \in {None, Dict(<<Entry("theme", Str(<<"dark">>))>>)},
      fm \in { Dict(<< >>),
               Dict(<<Entry("tags", List(<<Str(<<"f", "o", "o">>)>>))>>) } }
  \cup
  { Input(raw, None, Dict(<< >>), None) :
      raw \in UNION { [1..n -> FrameRecords] : n \in 0..1 } }

RECURSIVE Concat(_)
Concat(fs) == IF fs = << >> THEN << >> ELSE Head(fs) \o Concat(Tail(fs))

\* parts a file path is made of, at most
MaxParts == 3

PathParts ==
  { <<"a">>, <<"/">>, <<".">>, <<"m", "d">>, S_md, <<".">> \o S_excalidraw,
    S_excalidraw_md }

Paths ==
  { Concat(ps) : ps \in UNION { [1..n -> PathParts] : n \in 0..MaxParts } }

\* the args of a tool call: every subset of the keys of a full mapping
ArgsOf(full) == { Restrict(full, ks, TRUE) : ks \in SUBSET Keys(full) }

A_filepath == Entry("filepath", Str(<<"n">> \o S_md))
A_content == Entry("content", Str(<<"c">>))

ListFilesInDirArgs == ArgsOf(<<Entry("dirpath", Str(<<"d">>))>>)
GetFileContentsArgs == ArgsOf(<<A_filepath>>)
SearchArgs ==
  ArgsOf(<<Entry("query", Str(<<"q">>)), Entry("context_length", Num(10))>>)
AppendContentArgs == ArgsOf(<<A_filepath, A_content>>)
PatchContentArgs ==
  ArgsOf(<< A_filepath, Entry("operation", Str(<<"append">>)),
            Entry("target_type", Str(<<"heading">>)),
            Entry("target", Str(<<"h">>)), A_content >>)
PutContentArgs == ArgsOf(<<A_filepath, A_content>>)
\* values a client may send as "confirm"
ConfirmValues ==
  { Bool(TRUE), Bool(FALSE), None, Num(0), Num(1), Str(S_empty),
    Str(<<"f", "a", "l", "s", "e">>), Str(<<"t", "r", "u", "e">>) }

DeleteFileArgs ==
  { a \o c : a \in ArgsOf(<<A_filepath>>),
             c \in { << >> } \cup { <<Entry("confirm", x)>> : x \in ConfirmValues } }
ComplexSearchArgs ==
  ArgsOf(<<Entry("query", Dict(<<Entry("var", Str(<<"x">>))>>))>>)
BatchGetFileContentsArgs ==
  ArgsOf(<<Entry("filepaths", List(<<Str(<<"n">> \o S_md)>>))>>)
PeriodicNotesArgs ==
  { p \o ty :
      p \in { << >>, <<Entry("period", Str(<<"daily">>))>>,
              <<Entry("period", Str(<<"hourly">>))>> },
      ty \in { << >>, <<Entry("type", Str(<<"metadata">>))>>,
               <<Entry("type", Str(<<"raw">>))>> } }
RecentPeriodicNotesArgs ==
  { p \o l \o ic :
      p \in { << >>, <<Entry("period", Str(<<"weekly">>))>>,
              <<Entry("period", Str(<<"hourly">>))>> },
      l \in { << >>, <<Entry("limit", Num(3))>>, <<Entry("limit", Num(0))>>,
              <<Entry("limit", Str(<<"3">>))>> },
      ic \in { << >>, <<Entry("include_content", Bool(TRUE))>>,
               <<Entry("include_content", Str(<<"yes">>))>> } }

\* save_excalidraw: every path with one drawing, and a few paths with every
\* combination of the other arguments present or absent
SaveElements ==
  { List(<< >>), List(<<Rect(<<"r", "2">>) \o LabelHi>>),
    List(<<Rect(<<"r", "1">>) \o <<Entry("label", Bool(TRUE))>>>>) }

SaveExcalidrawArgs ==
  { <<Entry("filepath", Str(p)),
      Entry("elements", List(<<Rect(<<"r", "2">>) \o LabelHi>>))>> :
      p \in Paths }
  \cup
  { f \o e \o o :
      f \in { << >>, <<Entry("filepath", Str(<<"a">>))>>,
              <<Entry("filepath", Str(<<"a">> \o S_md))>> },
      e \in { << >> } \cup { <<Entry("elements", x)>> : x \in SaveElements },
      o \in ArgsOf(<< Entry("appState", Dict(<< >>)),
                      Entry("frontmatter",
                            Dict(<<Entry("pinned", Bool(TRUE))>>)),
                      Entry("text_elements", Str(<<"c", " ", "^", "X">>)) >>) }

\* the ids generate_id returns during one save_excalidraw call
SaveIds(args) ==
  IF ~Has(args, "filepath") \/ ~Has(args, "elements") THEN {<< >>}
  ELSE IdSeqs((IF Truthy(Get(args, "text_elements", Str(S_empty))) THEN 0
               ELSE LinesOf(Get(args, "elements", None).v))
              + HandlerLabelsOf(Get(args, "elements", None).v))

\* fragments a text passed to sanitize_text is made of, at most
MaxFrags == 3

\* the break variants, their characters and pieces of them
Fragments ==
  { BR, BRSlash, BRSpaceSlash, NL,
    <<"<">>, <<"b">>, <<"r">>, <<"/">>, <<" ">>, <<">">>, <<"a">>,
    <<"<", "b">>, <<"<", "b", "r">>, <<"r", ">">>, <<"/", ">">> }

SanitizeInputs ==
  {None} \cup
  { Str(Concat(fs)) : fs \in UNION { [1..n -> Fragments] : n \in 0..MaxFrags } }

\* ------------------------------------------------------------------------
\* state
\* ------------------------------------------------------------------------
VARIABLES
  elements,       \* ExcalidrawNoteBuilder.elements
  app_state,      \* ExcalidrawNoteBuilder.app_state
  frontmatter,    \* ExcalidrawNoteBuilder.frontmatter
  text_elements,  \* ExcalidrawNoteBuilder.text_elements
  call,           \* the last call made and its arguments
  ret,            \* what it returned or raised
  pc,             \* the caller: "idle" or "returned" from a call
  requests        \* the requests the current tool call made to the vault API

vars ==
  <<elements, app_state, frontmatter, text_elements, call, ret, pc, requests>>

\* what a call that is not a method of a builder object leaves alone
builder_vars == <<elements, app_state, frontmatter, text_elements>>

Self ==
  [t |-> "builder", elements |-> elements, app_state |-> app_state,
   frontmatter |-> frontmatter, text_elements |-> text_elements]

\* the builder's attributes after a method returned b, unchanged if it raised
Becomes(b) ==
  /\ elements' = IF IsRaise(b) THEN elements ELSE b.elements
  /\ app_state' = IF IsRaise(b) THEN app_state ELSE b.app_state
  /\ frontmatter' = IF IsRaise(b) THEN frontmatter ELSE b.frontmatter
  /\ text_elements' = IF IsRaise(b) THEN text_elements ELSE b.text_elements
  /\ ret' = IF IsRaise(b) THEN b ELSE [t |-> "self"]
  /\ pc' = pc
  /\ requests' = requests

Init ==
  /\ elements = NewBuilder.elements
  /\ app_state = NewBuilder.app_state
  /\ frontmatter = NewBuilder.frontmatter
  /\ text_elements = NewBuilder.text_elements
  /\ call = [op |-> "__init__"]
  /\ ret = [t |-> "self"]
  /\ pc = "idle"
  /\ requests = << >>

\* builder = ExcalidrawNoteBuilder()
Construct ==
  /\ call' = [op |-> "__init__"]
  /\ Becomes(NewBuilder)

\* builder.with_elements(raw)
WithElements ==
  \E raw \in BuilderLists : \E ids \in IdSeqs(LabelsOf(raw)) :
    /\ call' = [op |-> "with_elements", elements |-> raw, ids |-> ids]
    /\ Becomes(with_elements(Self, raw, ids))

\* builder.with_app_state(arg)
WithAppState ==
  \E arg \in AppStateValues :
    /\ call' = [op |-> "with_app_state", app_state |-> arg]
    /\ Becomes(with_app_state(Self, arg))

\* builder.with_frontmatter(arg)
WithFrontmatter ==
  \E arg \in FrontmatterDicts :
    /\ call' = [op |-> "with_frontmatter", frontmatter |-> arg]
    /\ Becomes(with_frontmatter(Self, arg))

\* builder.with_text_elements(text)
WithTextElements ==
  \E text \in TextIndexValues \ {None} :
    /\ call' = [op |-> "with_text_elements", text_elements |-> text]
    /\ Becomes(with_text_elements(Self, text))

\* builder.auto_extract_text_elements(raw)
AutoExtractTextElements ==
  \E raw \in BuilderLists : \E ids \in IdSeqs(LinesOf(raw)) :
    /\ call' = [op |-> "auto_extract_text_elements", elements |-> raw,
                ids |-> ids]
    /\ Becomes(auto_extract_text_elements(Self, raw, ids))

\* builder.build()
Build ==
  /\ call' = [op |-> "build"]
  /\ ret' = build(Self)
  /\ UNCHANGED <<elements, app_state, frontmatter, text_elements, pc,
                 requests>>

\* excalidraw.build_excalidraw_note(...): works on a builder of its own
BuildExcalidrawNote ==
  /\ pc = "idle"
  /\ pc' = "returned"
  /\ \E in \in Inputs :
    \E ids \in IdSeqs((IF Truthy(in.text_elements) THEN 0
                       ELSE LinesOf(in.elements)) + LabelsOf(in.elements)) :
      /\ call' = [op |-> "build_excalidraw_note", args |-> in, ids |-> ids]
      /\ ret' = build_excalidraw_note(in.elements, in.app_state,
                                      in.frontmatter, in.text_elements, ids)
      /\ UNCHANGED <<builder_vars, requests>>

\* SaveExcalidrawToolHandler._build_excalidraw_note(...)
HandlerBuildExcalidrawNote ==
  /\ pc = "idle"
  /\ pc' = "returned"
  /\ \E in \in Inputs :
    \E ids \in IdSeqs((IF Truthy(in.text_elements) THEN 0
                       ELSE LinesOf(in.elements))
                      + HandlerLabelsOf(in.elements)) :
      /\ call' = [op |-> "_build_excalidraw_note", args |-> in, ids |-> ids]
      /\ ret' = handler_build_excalidraw_note(in.elements, in.app_state,
                  in.frontmatter, in.text_elements, ids)
      /\ UNCHANGED <<builder_vars, requests>>

\* build_excalidraw_note(...) called twice with the same arguments, the
\* random source producing ids the first time and ids2 the second
BuildExcalidrawNoteTwice ==
  /\ pc = "idle"
  /\ pc' = "returned"
  /\ \E in \in TwiceInputs :
     \E ids, ids2 \in IdSeqs((IF Truthy(in.text_elements) THEN 0
                              ELSE LinesOf(in.elements))
                             + LabelsOf(in.elements)) :
       /\ call' = [op |-> "build_excalidraw_note twice", args |-> in,
                   ids |-> ids, ids2 |-> ids2]
       /\ ret' = [t |-> "pair",
                  first |-> build_excalidraw_note(in.elements, in.app_state,
                              in.frontmatter, in.text_elements, ids),
                  second |-> build_excalidraw_note(in.elements, in.app_state,
                               in.frontmatter, in.text_elements, ids2)]
  /\ UNCHANGED <<builder_vars, requests>>

\* the same for SaveExcalidrawToolHandler._build_excalidraw_note(...)
HandlerBuildExcalidrawNoteTwice ==
  /\ pc = "idle"
  /\ pc' = "returned"
  /\ \E in \in TwiceInputs :
     \E ids, ids2 \in IdSeqs((IF Truthy(in.text_elements) THEN 0
                              ELSE LinesOf(in.elements))
                             + HandlerLabelsOf(in.elements)) :
       /\ call' = [op |-> "_build_excalidraw_note twice", args |-> in,
                   ids |-> ids, ids2 |-> ids2]
       /\ ret' = [t |-> "pair",
                  first |-> handler_build_excalidraw_note(in.elements,
                              in.app_state, in.frontmatter, in.text_elements,
                              ids),
                  second |-> handler_build_excalidraw_note(in.elements,
                               in.app_state, in.frontmatter, in.text_elements,
                               ids2)]
  /\ UNCHANGED <<builder_vars, requests>>

\* handler.run_tool(args) returned or raised, having made some requests
Ran(name, args, outcome) ==
  /\ pc = "idle"
  /\ pc' = "returned"
  /\ call' = [op |-> name, args |-> args]
  /\ ret' = outcome.ret
  /\ requests' = outcome.requests
  /\ UNCHANGED builder_vars

ListFilesInDir ==
  \E args \in ListFilesInDirArgs :
    Ran("obsidian_list_files_in_dir", args, ListFilesInDirRunTool(args))

GetFileContents ==
  \E args \in GetFileContentsArgs :
    Ran("obsidian_get_file_contents", args, GetFileContentsRunTool(args))

Search ==
  \E args \in SearchArgs :
    Ran("obsidian_simple_search", args, SearchRunTool(args))

AppendContent ==
  \E args \in AppendContentArgs :
    Ran("obsidian_append_content", args, AppendContentRunTool(args))

PatchContent ==
  \E args \in PatchContentArgs :
    Ran("obsidian_patch_content", args, PatchContentRunTool(args))

PutContent ==
  \E args \in PutContentArgs :
    Ran("obsidian_put_content", args, PutContentRunTool(args))

DeleteFile ==
  \E args \in DeleteFileArgs :
    Ran("obsidian_delete_file", args, DeleteFileRunTool(args))

ComplexSearch ==
  \E args \in ComplexSearchArgs :
    Ran("obsidian_complex_search", args, ComplexSearchRunTool(args))

BatchGetFileContents ==
  \E args \in BatchGetFileContentsArgs :
    Ran("obsidian_batch_get_file_contents", args,
        BatchGetFileContentsRunTool(args))

PeriodicNotes ==
  \E args \in PeriodicNotesArgs :
    Ran("obsidian_get_periodic_note", args, PeriodicNotesRunTool(args))

RecentPeriodicNotes ==
  \E args \in RecentPeriodicNotesArgs :
    Ran("obsidian_get_recent_periodic_notes", args,
        RecentPeriodicNotesRunTool(args))

\* the generator producing ids during the call
SaveExcalidraw ==
  \E args \in SaveExcalidrawArgs : \E ids \in SaveIds(args) :
    Ran("obsidian_save_excalidraw", args, SaveExcalidrawRunTool(args, ids))

\* ExcalidrawElementProcessor.sanitize_text(text)
SanitizeText ==
  /\ pc = "idle"
  /\ pc' = "returned"
  /\ \E text \in SanitizeInputs :
       /\ call' = [op |-> "sanitize_text", text |-> text]
       /\ ret' = sanitize_text(text)
  /\ UNCHANGED <<builder_vars, requests>>

\* build_excalidraw_note(...) called by a caller that keeps its arguments:
\* the result, and the caller's objects before and after the call
BuildExcalidrawNoteFrame ==
  /\ pc = "idle"
  /\ pc' = "returned"
  /\ \E in \in FrameInputs :
     \E ids \in IdSeqs((IF Truthy(in.text_elements) THEN 0
                        ELSE LinesOf(in.elements)) + LabelsOf(in.elements)) :
       /\ call' = [op |-> "build_excalidraw_note", args |-> Arguments(in),
                   ids |-> ids]
       /\ ret' = [t |-> "frame",
                  result |-> build_excalidraw_note(
                               Arguments(in).elements, Arguments(in).app_state,
                               Arguments(in).frontmatter,
                               Arguments(in).text_elements, ids),
                  before |-> Heap(Arguments(in)),
                  after |-> BuilderStores(
                              Heap(Arguments(in)), Arguments(in),
                              IF Truthy(in.text_elements) THEN ids
                              ELSE Taken(ids, extract_texts(in.elements, ids)))]
  /\ UNCHANGED <<builder_vars, requests>>

\* the same for SaveExcalidrawToolHandler._build_excalidraw_note(...)
HandlerBuildExcalidrawNoteFrame ==
  /\ pc = "idle"
  /\ pc' = "returned"
  /\ \E in \in FrameInputs :
     \E ids \in IdSeqs((IF Truthy(in.text_elements) THEN 0
                        ELSE LinesOf(in.elements))
                       + HandlerLabelsOf(in.elements)) :
       /\ call' = [op |-> "_build_excalidraw_note", args |-> Arguments(in),
                   ids |-> ids]
       /\ ret' = [t |-> "frame",
                  result |-> handler_build_excalidraw_note(
                               Arguments(in).elements, Arguments(in).app_state,
                               Arguments(in).frontmatter,
                               Arguments(in).text_elements, ids),
                  before |-> Heap(Arguments(in)),
                  after |-> HandlerStores(
                              Heap(Arguments(in)), Arguments(in).elements,
                              IF Truthy(in.text_elements) THEN ids
                              ELSE Taken(ids, HandlerExtract(in.elements, ids)))]
  /\ UNCHANGED <<builder_vars, requests>>

\* the caller is done with the result and ready for the next call
Return ==
  /\ pc = "returned"
  /\ pc' = "idle"
  /\ call' = [op |-> "__init__"]
  /\ ret' = [t |-> "self"]
  /\ requests' = << >>
  /\ UNCHANGED builder_vars

\* calls of the two assembly functions
Next ==
  \/ BuildExcalidrawNote
  \/ HandlerBuildExcalidrawNote
  \/ Return

Spec == Init /\ [][Next]_vars

\* method calls on one ExcalidrawNoteBuilder object
BuilderNext ==
  \/ Construct
  \/ WithElements
  \/ WithAppState
  \/ WithFrontmatter
  \/ WithTextElements
  \/ AutoExtractTextElements
  \/ Build

BuilderSpec == Init /\ [][BuilderNext]_vars

\* calls of the tools
ToolNext ==
  \/ ListFilesInDir
  \/ GetFileContents
  \/ Search
  \/ AppendContent
  \/ PatchContent
  \/ PutContent
  \/ DeleteFile
  \/ ComplexSearch
  \/ BatchGetFileContents
  \/ PeriodicNotes
  \/ RecentPeriodicNotes
  \/ SaveExcalidraw
  \/ Return

ToolSpec == Init /\ [][ToolNext]_vars

\* callers that assemble the same note twice
TwiceNext ==
  \/ BuildExcalidrawNoteTwice
  \/ HandlerBuildExcalidrawNoteTwice
  \/ Return

TwiceSpec == Init /\ [][TwiceNext]_vars

\* callers that keep their arguments after the call
FrameNext ==
  \/ BuildExcalidrawNoteFrame
  \/ HandlerBuildExcalidrawNoteFrame
  \/ Return

FrameSpec == Init /\ [][FrameNext]_vars

\* calls of sanitize_text
SanitizeNext ==
  \/ SanitizeText
  \/ Return

SanitizeSpec == Init /\ [][SanitizeNext]_vars

\* ------------------------------------------------------------------------
\* properties
\* ------------------------------------------------------------------------
\* an assembly call has returned a note
Returned == pc = "returned" /\ ret.t = "note"
ByBuilder == call.op = "build_excalidraw_note"
ByHandler == call.op = "_build_excalidraw_note"

\* the raw records passed to the call, and the elements of the scene graph
RawOf(c) == IF c.op \in {"build_excalidraw_note", "_build_excalidraw_note"}
              THEN c.args.elements ELSE << >>
EmittedOf(r) == IF r.t = "note"
                  THEN Get(r.excalidraw_data.v, "elements", List(<< >>)).v
                  ELSE << >>
Raw == RawOf(call)
Emitted == EmittedOf(ret)

\* the fields of the schema as the specification documents them
CoreKeys == {"id", "type", "x", "y", "width", "height"}

DocumentedDefaults ==
  << Entry("angle", Num(0)), Entry("strokeColor", Str(S_stroke)),
     Entry("backgroundColor", Str(S_transparent)),
     Entry("fillStyle", Str(S_solid)), Entry("strokeWidth", Num(2)),
     Entry("strokeStyle", Str(S_solid)), Entry("roughness", Num(1)),
     Entry("opacity", Num(100)), Entry("groupIds", List(<< >>)),
     Entry("frameId", None), Entry("roundness", None), Entry("seed", Num(1)),
     Entry("version", Num(1)), Entry("versionNonce", Num(1)),
     Entry("isDeleted", Bool(FALSE)), Entry("boundElements", List(<< >>)),
     Entry("updated", Num(1)), Entry("link", None),
     Entry("locked", Bool(FALSE)) >>

SchemaKeys == CoreKeys \cup Keys(DocumentedDefaults)

\* The emitted list read as one group per raw record: sz[i] is the size of
\* the group of record i, the container comes first in its group and has the
\* id of the record.
RECURSIVE SumTo(_, _)
SumTo(sz, n) == IF n = 0 THEN 0 ELSE sz[n] + SumTo(sz, n - 1)
Start(sz, i) == 1 + SumTo(sz, i - 1)
Container(sz, i) == Emitted[Start(sz, i)].v
Companion(sz, i) == Emitted[Start(sz, i) + 1].v
Groupings ==
  { sz \in [DOMAIN Raw -> {1, 2}] :
      /\ SumTo(sz, Len(Raw)) = Len(Emitted)
      /\ \A i \in DOMAIN Raw :
           Get(Container(sz, i), "id", None) = Get(Raw[i], "id", Str(S_empty)) }

\* record i has a label that was expanded into a text element
Expanded(sz, i) == sz[i] = 2

Complete(r) == \A k \in CoreKeys : Has(r, k)

\* C1: a record that omits x, y, width or height is not rejected by either
\* implementation: the call returns a note and the element emitted for the
\* record carries the default 0 for each omitted geometry field.
C1_GeometryDefaulted ==
  ( /\ pc = "returned"
    /\ \A i \in DOMAIN Raw :
         /\ Has(Raw[i], "id") /\ Has(Raw[i], "type")
         /\ Has(Raw[i], "label") => Get(Raw[i], "label", None).t = "str" )
  => /\ ret.t = "note"
     /\ \E sz \in Groupings : \A i \in DOMAIN Raw :
          \A k \in {"x", "y", "width", "height"} :
            /\ Has(Container(sz, i), k)
            /\ ~Has(Raw[i], k) => Get(Container(sz, i), k, None) = Num(0)

\* the label of a record, if any, is a string or a mapping
ValidLabel(r) == Has(r, "label") => Get(r, "label", None).t \in {"str", "dict"}

\* C2 as stated: the element emitted for a raw record has all 19 optional
\* schema keys, an omitted one with its documented default and a supplied one
\* with the raw value (looked at for records whose label is a string or a
\* mapping, which is where label expansion is meant to happen).
C2_AllOptionalKeys ==
  (Returned /\ \A i \in DOMAIN Raw : ValidLabel(Raw[i])) =>
    \E sz \in Groupings : \A i \in DOMAIN Raw :
      \A j \in DOMAIN DocumentedDefaults :
        LET k == DocumentedDefaults[j].k
        IN /\ Has(Container(sz, i), k)
           /\ Get(Container(sz, i), k, None)
                = Get(Raw[i], k, DocumentedDefaults[j].v)

\* C2 amended: the element emitted for a raw record has all 19 optional
\* schema keys, an omitted one with its documented default and a supplied one
\* with the raw value, except boundElements of a container whose label was
\* expanded into a text element, which is a one-entry list.
C2_AllOptionalKeysButBound ==
  Returned =>
    \E sz \in Groupings : \A i \in DOMAIN Raw :
      \A j \in DOMAIN DocumentedDefaults :
        LET k == DocumentedDefaults[j].k
            x == Get(Container(sz, i), k, None)
        IN /\ Has(Container(sz, i), k)
           /\ IF k = "boundElements" /\ Expanded(sz, i)
                THEN x.t = "list" /\ Len(x.v) = 1
                ELSE x = Get(Raw[i], k, DocumentedDefaults[j].v)

\* a call returned a note for a labelled record that supplies some optional
\* fields, a falsy one among them, and omits others
C2_Witness ==
  /\ Returned
  /\ Len(Raw) = 1 /\ Len(Emitted) = 2
  /\ Has(Raw[1], "roughness") /\ Has(Raw[1], "boundElements")
  /\ ~Has(Raw[1], "angle")

\* keys outside the schema that the assembly reads from a raw record
InterpretedKeys ==
  {"label", "text", "fontSize", "fontFamily", "textAlign", "points"}

\* C3: every key of a raw record outside the schema is on the element
\* emitted for the record, with its value unchanged, in both implementations
\* (looked at for the keys the assembly does not read itself).
C3_UnknownFieldsPreserved ==
  Returned =>
    \E sz \in Groupings : \A i \in DOMAIN Raw :
      \A k \in Keys(Raw[i]) \ (SchemaKeys \cup InterpretedKeys) :
        /\ Has(Container(sz, i), k)
        /\ Get(Container(sz, i), k, None) = Get(Raw[i], k, None)

\* C4: whenever a label is expanded, the container's boundElements is exactly
\* [{type: "text", id: T}] with T the id of the text element that follows it
\* and that text element's containerId is the container's id.
C4_MutualReference ==
  Returned =>
    \E sz \in Groupings : \A i \in DOMAIN Raw :
      Expanded(sz, i) =>
        /\ Get(Container(sz, i), "boundElements", None)
             = List(<<Dict(<< Entry("type", Str(S_text)),
                              Entry("id", Get(Companion(sz, i), "id", None)) >>)>>)
        /\ Get(Companion(sz, i), "containerId", None)
             = Get(Container(sz, i), "id", None)
        /\ Get(Companion(sz, i), "id", None) \in {Str(id) : id \in Ids}

\* the tool handler expanded the label of a record that supplied its own
\* boundElements
C4_Witness ==
  /\ Returned /\ ByHandler
  /\ Len(Emitted) > Len(Raw)
  /\ \E i \in DOMAIN Raw :
       Has(Raw[i], "label") /\ Has(Raw[i], "boundElements")

\* C5: for complete records whose label is neither a mapping nor a string the
\* call returns a note, no text element is added and boundElements is the raw
\* value or [].
C5_InvalidLabelSkipped ==
  ( /\ pc = "returned"
    /\ Raw # << >>
    /\ \A i \in DOMAIN Raw :
         /\ Complete(Raw[i])
         /\ Has(Raw[i], "label")
         /\ Get(Raw[i], "label", None).t \notin {"str", "dict"}
         /\ ~Has(Raw[i], "text") )
  => /\ ret.t = "note"
     /\ Len(Emitted) = Len(Raw)
     /\ \A i \in DOMAIN Raw :
          Get(Emitted[i].v, "boundElements", None)
            = Get(Raw[i], "boundElements", List(<< >>))

\* the tags entry of the frontmatter of a note
TagsOf(r) == Get(r.frontmatter, "tags", None)

\* C6: the frontmatter of every assembled note has a tags entry that is a
\* non-empty sequence, also when the caller passes tags: [].
C6_TagsNonEmpty ==
  Returned => TagsOf(ret).t = "list" /\ Len(TagsOf(ret).v) > 0

\* C7: the tags of every assembled note include "excalidraw", also when the
\* caller passes a non-empty tags list without it.
C7_TagsIncludeDomainTag ==
  ( /\ Returned
    /\ Truthy(Get(call.args.frontmatter.v, "tags", DefaultTags)) )
  => /\ TagsOf(ret).t = "list"
     /\ \E i \in DOMAIN TagsOf(ret).v : TagsOf(ret).v[i] = Str(S_excalidraw)

\* C8: after any sequence of with_frontmatter calls the frontmatter of the
\* builder, and of the note it builds, has excalidraw-plugin: "parsed".
C8_PluginParsed ==
  /\ Get(frontmatter, "excalidraw-plugin", None) = Str(S_parsed)
  /\ (call.op = "build" /\ ret.t = "note")
       => Get(ret.frontmatter, "excalidraw-plugin", None) = Str(S_parsed)

\* C9: the appState of the scene graph is the caller's mapping whenever one
\* is passed (an empty one included) and the default configuration otherwise.
C9_AppStateVerbatim ==
  Returned =>
    Get(ret.excalidraw_data.v, "appState", None)
      = IF call.args.app_state.t = "none" THEN DEFAULT_APP_STATE
        ELSE call.args.app_state

\* the text content of an element as the specification describes it
ContentOf(r) ==
  LET label == Get(r, "label", None)
  IN IF Has(r, "text") /\ Get(r, "text", None) # Str(S_empty)
       THEN Get(r, "text", None).v
     ELSE IF ~Has(r, "label") THEN << >>
     ELSE IF label.t = "str" THEN label.v
     ELSE IF label.t = "dict" /\ Has(label.v, "text")
       THEN Get(label.v, "text", None).v
     ELSE << >>

OnlyWhitespace(s) == \A i \in DOMAIN s : s[i] \in {" ", "\n", "\t"}

\* one line per element with content, in order, each with the next block id
RECURSIVE ExpectedIndex(_, _)
ExpectedIndex(raw, ids) ==
  IF raw = << >> THEN << >>
  ELSE IF OnlyWhitespace(ContentOf(Head(raw)))
    THEN ExpectedIndex(Tail(raw), ids)
  ELSE <<ContentOf(Head(raw)) \o <<" ", "^">> \o Head(ids)>>
       \o ExpectedIndex(Tail(raw), Tail(ids))

RECURSIVE JoinBlank(_)
JoinBlank(lines) ==
  IF lines = << >> THEN << >>
  ELSE IF Len(lines) = 1 THEN lines[1]
  ELSE lines[1] \o <<"\n", "\n">> \o JoinBlank(Tail(lines))

\* C10: without a custom text index, the index of the note is, in input
\* order and without deduplication, one line "{content} ^{blockId}" per
\* element whose content is non-empty after trimming, and nothing else.
C10_TextIndexLines ==
  (Returned /\ ~Truthy(call.args.text_elements))
  => ret.text_elements = Str(JoinBlank(ExpectedIndex(Raw, call.ids)))

\* the index was extracted from a list that holds the same labelled record
\* twice
C10_Witness ==
  /\ Returned /\ ByBuilder
  /\ ~Truthy(call.args.text_elements)
  /\ Len(Raw) = 2 /\ Raw[1] = Raw[2] /\ Has(Raw[1], "label")
  /\ ret.text_elements # Str(S_empty)

\* the keys of a mapping in insertion order
KeySeq(d) == [i \in DOMAIN d |-> d[i].k]

\* the lines the specification gives one frontmatter entry
SpecEntryLines(e) ==
  IF e.v.t = "list"
    THEN <<<<e.k, ":">>>>
         \o [i \in DOMAIN e.v.v |-> <<" ", " ", "-", " ">> \o PyStr(e.v.v[i])]
  ELSE IF e.v.t = "bool"
    THEN << <<e.k, ":", " ">>
            \o (IF e.v.v THEN <<"t", "r", "u", "e">>
                          ELSE <<"f", "a", "l", "s", "e">>) >>
  ELSE << <<e.k, ":", " ">> \o PyStr(e.v) >>

\* every line followed by a newline
RECURSIVE Terminated(_)
Terminated(lines) ==
  IF lines = << >> THEN << >> ELSE Head(lines) \o NL \o Terminated(Tail(lines))

RECURSIVE SpecFrontmatterLines(_)
SpecFrontmatterLines(fm) ==
  IF fm = << >> THEN << >>
  ELSE SpecEntryLines(Head(fm)) \o SpecFrontmatterLines(Tail(fm))

\* the text index the specification puts in the note
SpecIndex ==
  IF Truthy(call.args.text_elements) THEN call.args.text_elements.v
  ELSE JoinBlank(ExpectedIndex(Raw, call.ids))

\* C11: the text of the note is the frontmatter block (one line per key in
\* merge insertion order, lists as a key line and "  - item" lines, booleans
\* in lower case, between two --- lines), an empty line, the banner, an empty
\* line, "# Excalidraw Data", an empty line, "## Text Elements", the text
\* index, "%%", "## Drawing", the opening json fence, the scene graph JSON,
\* the closing fence and "%%", each followed by one newline but the last.
C11_DocumentLayout ==
  Returned =>
    /\ KeySeq(ret.frontmatter)
         = <<"excalidraw-plugin", "tags">>
           \o KeySeq(Restrict(call.args.frontmatter.v,
                              {"excalidraw-plugin", "tags"}, FALSE))
    /\ ret.document.head
         = Terminated(<<Fixed.dashes>> \o SpecFrontmatterLines(ret.frontmatter)
                      \o << Fixed.dashes, << >>, Fixed.banner, << >>, Fixed.data, << >>,
                            Fixed.text, SpecIndex, Fixed.comment, Fixed.drawing,
                            Fixed.fence >>)
    /\ ret.document.json
         = ExcalidrawData(Emitted,
                          Get(ret.excalidraw_data.v, "appState", None))
    /\ ret.document.tail = NL \o Fixed.close \o NL \o Fixed.comment

\* a note was assembled from a frontmatter with a boolean value and a key of
\* its own, and with a custom text index
C11_Witness ==
  /\ Returned
  /\ Get(call.args.frontmatter.v, "pinned", None) = Bool(TRUE)
  /\ Truthy(call.args.text_elements)
  /\ Len(ret.document.head) > 20

\* a raw record of type arrow or line
IsArrowRecord(r) == Get(r, "type", None) \in {Str(S_arrow), Str(S_line)}

\* C12: the element emitted for an arrow or line record that supplies a
\* width and no points has points = [[0, 0], [width, 0]], whatever its
\* height.
C12_ArrowPointsDefault ==
  Returned =>
    \E sz \in Groupings : \A i \in DOMAIN Raw :
      (IsArrowRecord(Raw[i]) /\ Has(Raw[i], "width") /\ ~Has(Raw[i], "points"))
      => Get(Container(sz, i), "points", None)
           = List(<< List(<<Num(0), Num(0)>>),
                     List(<<Get(Raw[i], "width", None), Num(0)>>) >>)

ArrowKeys ==
  { "points", "lastCommittedPoint", "startBinding", "endBinding",
    "startArrowhead", "endArrowhead" }

\* C13: every emitted element of type arrow or line has the six keys
\* points, lastCommittedPoint, startBinding, endBinding, startArrowhead and
\* endArrowhead, in both implementations.
C13_ArrowKeysPresent ==
  Returned =>
    \A j \in DOMAIN Emitted :
      IsArrowRecord(Emitted[j].v) => \A k \in ArrowKeys : Has(Emitted[j].v, k)

\* the defaults the specification gives the text-specific fields
TextDefaults(r) ==
  << Entry("fontSize", Num(20)), Entry("fontFamily", Num(1)),
     Entry("textAlign", Str(S_left)), Entry("verticalAlign", Str(S_top)),
     Entry("baseline", Num(18)), Entry("containerId", None),
     Entry("originalText", Get(r, "text", None)),
     Entry("autoResize", Bool(TRUE)), Entry("lineHeight", NumV(50)) >>

\* C14: the element emitted for a raw record with a text field has every
\* text-specific key, with the raw value if the record gives one and the
\* default otherwise, in both implementations and also when the record has
\* a label as well.
C14_TextFieldsDefaulted ==
  Returned =>
    \E sz \in Groupings : \A i \in DOMAIN Raw :
      Has(Raw[i], "text") =>
        \A j \in DOMAIN TextDefaults(Raw[i]) :
          /\ Has(Container(sz, i), TextDefaults(Raw[i])[j].k)
          /\ Get(Container(sz, i), TextDefaults(Raw[i])[j].k, None)
               = Get(Raw[i], TextDefaults(Raw[i])[j].k,
                     TextDefaults(Raw[i])[j].v)

\* C15: the text element synthesised for a label is centred on its
\* container, 2 * text.x + text.width = 2 * container.x + container.width and
\* the same for y, with text.width = len(text) * fontSize * 0.6 and
\* text.height = fontSize * 1.25, fontSize being the raw record's or 20.
C15_LabelCentred ==
  Returned =>
    \E sz \in Groupings : \A i \in DOMAIN Raw :
      Expanded(sz, i) =>
        LET c == Container(sz, i)
            tx == Companion(sz, i)
            fs == Get(Raw[i], "fontSize", Num(20))
        IN /\ Get(tx, "fontSize", None) = fs
           /\ 10 * Get(tx, "width", None).v
                = 6 * Len(Get(tx, "text", None).v) * fs.v
           /\ 100 * Get(tx, "height", None).v = 125 * fs.v
           /\ 2 * Get(tx, "x", None).v + Get(tx, "width", None).v
                = 2 * Get(c, "x", None).v + Get(c, "width", None).v
           /\ 2 * Get(tx, "y", None).v + Get(tx, "height", None).v
                = 2 * Get(c, "y", None).v + Get(c, "height", None).v

\* the 100 x 50 rectangle at (0, 0) labelled "Hi", font size 20: the text
\* box is at x = 38, y = 12.5
C15_Witness ==
  /\ Returned
  /\ Len(Raw) = 1 /\ Len(Emitted) = 2
  /\ Get(Raw[1], "x", None) = Num(0) /\ Get(Raw[1], "y", None) = Num(0)
  /\ Get(Raw[1], "width", None) = Num(100)
  /\ Get(Raw[1], "height", None) = Num(50)
  /\ Get(Raw[1], "label", None) = Str(S_Hi) /\ ~Has(Raw[1], "fontSize")
  /\ Get(Emitted[2].v, "x", None) = Num(38)
  /\ Get(Emitted[2].v, "y", None) = NumV(500)

\* pat occurs in s
Occurs(s, pat) ==
  \E i \in 1..(Len(s) - Len(pat) + 1) : SubSeq(s, i, i + Len(pat) - 1) = pat

\* C16: sanitize_text applied to its own result changes nothing, the result
\* of a non-empty text holds none of "<br>", "<br/>" and "<br />", and an
\* empty or falsy input comes back unchanged.
C16_SanitizeIdempotent ==
  (pc = "returned" /\ call.op = "sanitize_text") =>
    /\ sanitize_text(ret) = ret
    /\ Truthy(call.text) =>
         /\ ret.t = "str"
         /\ ~Occurs(ret.v, BR)
         /\ ~Occurs(ret.v, BRSlash)
         /\ ~Occurs(ret.v, BRSpaceSlash)
    /\ ~Truthy(call.text) => ret = call.text

\* a break nested in the pieces of another one: "<br<br>/>" became
\* "<br\n/>"
C16_Witness ==
  /\ pc = "returned" /\ call.op = "sanitize_text"
  /\ call.text = Str(<<"<", "b", "r">> \o BR \o <<"/", ">">>)
  /\ ret = Str(<<"<", "b", "r", "\n", "/", ">">>)

\* the id of an emitted element or of a raw record
IdOf(r) == Get(r, "id", None)

\* C17: when the raw records have pairwise distinct ids, the elements of the
\* scene graph, text elements synthesised for labels included, have pairwise
\* distinct ids, whatever the generator returns.
C17_IdsDistinct ==
  ( /\ Returned
    /\ \A i \in DOMAIN Raw : Has(Raw[i], "id")
    /\ \A i, j \in DOMAIN Raw : i # j => IdOf(Raw[i]) # IdOf(Raw[j]) )
  => \A i, j \in DOMAIN Emitted :
       i # j => IdOf(Emitted[i].v) # IdOf(Emitted[j].v)

\* a text with the block ids after "^" blanked (an id is one token here)
MaskIds(s) ==
  [i \in DOMAIN s |->
     IF i > 1 /\ s[i - 1] = "^" /\ <<s[i]>> \in Ids THEN "?" ELSE s[i]]

GeneratedIds == {Str(id) : id \in Ids}

\* a text element synthesised for a label
Synthesised(e) ==
  /\ Get(e, "type", None) = Str(S_text)
  /\ Get(e, "containerId", None).t = "str"
  /\ IdOf(e) \in GeneratedIds

\* the boundElements of a container whose label was expanded
BoundToText(e) ==
  \E id \in GeneratedIds :
    Get(e, "boundElements", None) = BoundText(id)

\* two emitted elements that differ at most in a synthesised text id or in
\* the boundElements entry that refers to one
SameButIds(e1, e2) ==
  /\ KeySeq(e1) = KeySeq(e2)
  /\ \A k \in Keys(e1) :
       \/ Get(e1, k, None) = Get(e2, k, None)
       \/ k = "id" /\ Synthesised(e1) /\ Synthesised(e2)
       \/ k = "boundElements" /\ BoundToText(e1) /\ BoundToText(e2)

\* C18: two assemblies of the same arguments return the same note when the
\* generator produces the same ids, and otherwise notes that differ only in
\* the ids of synthesised text elements, in the boundElements entries that
\* refer to them and in the block ids of the text index.
C18_DeterministicUpToIds ==
  (pc = "returned" /\ ret.t = "pair") =>
    /\ ret.first.t = ret.second.t
    /\ call.ids = call.ids2 => ret.first = ret.second
    /\ ret.first.t = "note" =>
         /\ ret.first.frontmatter = ret.second.frontmatter
         /\ MaskIds(ret.first.document.head)
              = MaskIds(ret.second.document.head)
         /\ ret.first.document.tail = ret.second.document.tail
         /\ ret.first.document.json = ret.first.excalidraw_data
         /\ ret.second.document.json = ret.second.excalidraw_data
         /\ Restrict(ret.first.excalidraw_data.v, {"elements"}, FALSE)
              = Restrict(ret.second.excalidraw_data.v, {"elements"}, FALSE)
         /\ Len(EmittedOf(ret.first)) = Len(EmittedOf(ret.second))
         /\ \A j \in DOMAIN EmittedOf(ret.first) :
              SameButIds(EmittedOf(ret.first)[j].v, EmittedOf(ret.second)[j].v)

\* two assemblies of a list with a labelled record got different ids and
\* returned different notes
C18_Witness ==
  /\ pc = "returned" /\ ret.t = "pair"
  /\ call.ids # call.ids2
  /\ ret.first.t = "note" /\ ret.first # ret.second
  /\ ~Truthy(call.args.text_elements)
  /\ Len(EmittedOf(ret.first)) > Len(call.args.elements)

\* a save_excalidraw call that was given a path and a drawing has returned
Saved ==
  /\ pc = "returned" /\ call.op = "obsidian_save_excalidraw"
  /\ Has(call.args, "filepath") /\ Has(call.args, "elements")
  /\ ~IsRaise(ret)

\* C19: save_excalidraw calls put_content, once, with a path that ends in
\* ".excalidraw.md", and with the caller's path itself when that already
\* ends in ".excalidraw.md".
C19_SavePathSuffix ==
  Saved =>
    /\ Len(requests) = 1
    /\ requests[1].op = "put_content"
    /\ EndsWith(requests[1].params[1].v, S_excalidraw_md)
    /\ EndsWith(Get(call.args, "filepath", None).v, S_excalidraw_md)
         => requests[1].params[1] = Get(call.args, "filepath", None)

\* a path ending in ".md" was rewritten and one ending in ".excalidraw.md"
\* would have been kept: here "a.md" was saved as "a.excalidraw.md"
C19_Witness ==
  /\ Saved
  /\ Get(call.args, "filepath", None) = Str(<<"a">> \o S_md)
  /\ requests[1].params[1] = Str(<<"a">> \o S_excalidraw_md)

\* the arguments each tool requires
RequiredArgs ==
  << Entry("obsidian_list_files_in_dir", {"dirpath"}),
     Entry("obsidian_get_file_contents", {"filepath"}),
     Entry("obsidian_simple_search", {"query"}),
     Entry("obsidian_append_content", {"filepath", "content"}),
     Entry("obsidian_patch_content",
           {"filepath", "operation", "target_type", "target", "content"}),
     Entry("obsidian_put_content", {"filepath", "content"}),
     Entry("obsidian_delete_file", {"filepath"}),
     Entry("obsidian_complex_search", {"query"}),
     Entry("obsidian_batch_get_file_contents", {"filepaths"}),
     Entry("obsidian_get_periodic_note", {"period"}),
     Entry("obsidian_get_recent_periodic_notes", {"period"}),
     Entry("obsidian_save_excalidraw", {"filepath", "elements"}) >>

\* a tool call has returned or raised
ToolReturned == pc = "returned" /\ Has(RequiredArgs, call.op)

\* C20: a tool call whose args lack a required argument raises, and no
\* request was made to the vault API.
C20_MissingArgumentRejected ==
  ( /\ ToolReturned
    /\ \E k \in Get(RequiredArgs, call.op, {}) : ~Has(call.args, k) )
  => IsRaise(ret) /\ requests = << >>

\* a patch call with four of its five arguments was rejected
C20_Witness ==
  /\ ToolReturned /\ call.op = "obsidian_patch_content"
  /\ Keys(call.args) = {"filepath", "operation", "target_type", "target"}
  /\ IsRaise(ret) /\ requests = << >>

\* ------------------------------------------------------------------------
\* the delete tool's confirmation
\* ------------------------------------------------------------------------
DeleteReturned == ToolReturned /\ call.op = "obsidian_delete_file"

\* C21: a delete call whose confirm argument is anything but the boolean
\* True (absent, False, a string, a number) raises and makes no delete_file
\* request.
C21_DeleteOnlyOnTrue ==
  ( /\ DeleteReturned
    /\ Get(call.args, "confirm", None) # Bool(TRUE) )
  => IsRaise(ret) /\ requests = << >>

\* ------------------------------------------------------------------------
\* the shape of the emitted list
\* ------------------------------------------------------------------------
\* the label text of a raw record after sanitising, empty when the record
\* has no label or a falsy one
SanitisedLabel(r) ==
  IF Has(r, "label") /\ Truthy(Get(r, "label", None))
    THEN sanitize_text(extract_label_text(Get(r, "label", None)))
    ELSE Str(S_empty)

HasLabelText(r) == ~IsRaise(SanitisedLabel(r)) /\ Truthy(SanitisedLabel(r))

\* C22: the emitted list is, in the order of the raw records, one group per
\* record, [container] or [container, synthesised text] with the container
\* first; a record has the second element exactly when its sanitised label
\* text is not empty, so the list has one element per record plus one per
\* such record.
C22_GroupPerRecord ==
  Returned =>
    /\ \E sz \in Groupings : \A i \in DOMAIN Raw :
         /\ Expanded(sz, i) <=> HasLabelText(Raw[i])
         /\ Expanded(sz, i) =>
              /\ Synthesised(Companion(sz, i))
              /\ Get(Companion(sz, i), "containerId", None)
                   = IdOf(Container(sz, i))
              /\ Get(Companion(sz, i), "text", None) = SanitisedLabel(Raw[i])
    /\ Len(Emitted)
         = Len(Raw) + Cardinality({i \in DOMAIN Raw : HasLabelText(Raw[i])})

\* a list of two records with different ids, the second one labelled, was
\* emitted as three elements
C22_Witness ==
  /\ Returned /\ Len(Raw) = 2 /\ Len(Emitted) = 3
  /\ IdOf(Raw[1]) # IdOf(Raw[2])
  /\ ~Has(Raw[1], "label") /\ HasLabelText(Raw[2])
  /\ Synthesised(Emitted[3].v)

\* the label of a record is absent, falsy (empty), a mapping without a text
\* field or a mapping whose text is empty
NoLabelText(r) ==
  \/ ~Has(r, "label")
  \/ ~Truthy(Get(r, "label", None))
  \/ /\ Get(r, "label", None).t = "dict"
     /\ Get(Get(r, "label", None).v, "text", Str(S_empty)) = Str(S_empty)

\* C23: a record without label text gets no text element: it is emitted
\* once, and the boundElements of the emitted element is the raw value, or []
\* when the record has none.
C23_UnlabelledUntouched ==
  Returned =>
    \E sz \in Groupings : \A i \in DOMAIN Raw :
      NoLabelText(Raw[i]) =>
        /\ ~Expanded(sz, i)
        /\ ~Synthesised(Container(sz, i))
        /\ Get(Container(sz, i), "boundElements", None)
             = Get(Raw[i], "boundElements", List(<< >>))

\* a record whose label is a mapping without text and that supplies its own
\* boundElements was emitted alone
C23_Witness ==
  /\ Returned /\ Len(Raw) = 1 /\ Len(Emitted) = 1
  /\ Get(Raw[1], "label", None).t = "dict"
  /\ Truthy(Get(Raw[1], "label", None))
  /\ Truthy(Get(Raw[1], "boundElements", List(<< >>)))
  /\ Get(Emitted[1].v, "boundElements", None)
       = Get(Raw[1], "boundElements", None)

\* ------------------------------------------------------------------------
\* the caller's objects after an assembly
\* ------------------------------------------------------------------------
\* an assembly called with the caller's objects has returned a note
FrameReturned == pc = "returned" /\ ret.t = "frame" /\ ret.result.t = "note"

\* C24: after an assembly returns, every object of the caller (each raw
\* record, its boundElements and groupIds lists, the appState map, the
\* frontmatter map and its lists) holds what it held before the call, and
\* the boundElements of an emitted container whose label was expanded is a
\* list of its own, not the caller's.
C24_InputsUnchanged ==
  FrameReturned =>
    /\ ret.after = ret.before
    /\ \A a \in DOMAIN ret.before :
         a[1] = "element" =>
           ret.before[a] = Dict(call.args.elements[a[2]])
    /\ \A j \in DOMAIN EmittedOf(ret.result) :
         BoundToText(EmittedOf(ret.result)[j].v) =>
           ~Shared(Get(EmittedOf(ret.result)[j].v, "boundElements", None))

\* a note was returned for a labelled record that brought its own
\* boundElements and groupIds lists, with the caller's appState and tags:
\* the emitted container shares the groupIds list and not boundElements
C24_Witness ==
  /\ FrameReturned
  /\ Len(call.args.elements) = 2
  /\ Shared(call.args.app_state)
  /\ Has(call.args.frontmatter.v, "tags")
  /\ Shared(Get(call.args.elements[1], "boundElements", None))
  /\ Has(call.args.elements[1], "label")
  /\ Shared(Get(EmittedOf(ret.result)[1].v, "groupIds", None))
  /\ ~Shared(Get(EmittedOf(ret.result)[1].v, "boundElements", None))
  /\ <<"boundElements", 1>> \in DOMAIN ret.before

\* ------------------------------------------------------------------------
\* the text index and the label expansion
\* ------------------------------------------------------------------------
\* the index lines when the index follows the label expansion: for a
\* labelled record a line exactly when its label was expanded, with the text
\* of the synthesised element; for any other record its text content
RECURSIVE AgreedIndex(_, _, _)
AgreedLine(sz, i) ==
  IF Has(Raw[i], "label")
    THEN (IF Expanded(sz, i)
            THEN <<Get(Companion(sz, i), "text", Str(S_empty)).v>>
            ELSE << >>)
  ELSE IF OnlyWhitespace(ContentOf(Raw[i])) THEN << >>
  ELSE <<ContentOf(Raw[i])>>

AgreedIndex(sz, i, ids) ==
  IF i > Len(Raw) THEN << >>
  ELSE IF AgreedLine(sz, i) = << >> THEN AgreedIndex(sz, i + 1, ids)
  ELSE <<AgreedLine(sz, i)[1] \o <<" ", "^">> \o NextId(ids)>>
       \o AgreedIndex(sz, i + 1, IF ids = << >> THEN ids ELSE Tail(ids))

\* C25: without a custom text index, a labelled record has a line in the
\* index exactly when its label was expanded into a text element, and the
\* content of the line is the text of that element.
C25_IndexAgreesWithExpansion ==
  (Returned /\ ~Truthy(call.args.text_elements)) =>
    \E sz \in Groupings :
      /\ \A i \in DOMAIN Raw : Expanded(sz, i) => Synthesised(Companion(sz, i))
      /\ ret.text_elements = Str(JoinBlank(AgreedIndex(sz, 1, call.ids)))

\* ------------------------------------------------------------------------
\* the path a drawing is saved under
\* ------------------------------------------------------------------------
\* the path with only its trailing suffix changed: kept when it ends in
\* ".excalidraw.md", its final ".md" replaced when it ends in ".md", and
\* ".excalidraw.md" appended otherwise
SuffixedPath(p) ==
  IF EndsWith(p, S_excalidraw_md) THEN p
  ELSE IF EndsWith(p, S_md)
    THEN SubSeq(p, 1, Len(p) - Len(S_md)) \o S_excalidraw_md
  ELSE p \o S_excalidraw_md

\* C26: save_excalidraw writes to the caller's path with only the trailing
\* suffix changed; every character before the final suffix is the caller's.
C26_OnlySuffixChanged ==
  Saved =>
    /\ Len(requests) = 1
    /\ requests[1].params[1].v
         = SuffixedPath(Get(call.args, "filepath", None).v)

\* ------------------------------------------------------------------------
\* the two implementations side by side
\* ------------------------------------------------------------------------
\* what each implementation returns for the arguments and the ids of the call
ByBuilderResult ==
  build_excalidraw_note(call.args.elements, call.args.app_state,
                        call.args.frontmatter, call.args.text_elements,
                        call.ids)

ByHandlerResult ==
  handler_build_excalidraw_note(call.args.elements, call.args.app_state,
                                call.args.frontmatter,
                                call.args.text_elements, call.ids)

\* C27: for records that carry id, type, x, y, width and height and whose
\* labels are strings or mappings, and the same generated ids,
\* build_excalidraw_note and the tool handler's _build_excalidraw_note
\* return the same document with the same elements, keys and values.
C27_ImplementationsAgree ==
  ( /\ pc = "returned" /\ (ByBuilder \/ ByHandler)
    /\ \A i \in DOMAIN Raw : Complete(Raw[i]) /\ ValidLabel(Raw[i]) )
  => /\ ret = ByBuilderResult
     /\ ret = ByHandlerResult

====
